---- MODULE Spec2Model ----
(***************************************************************************)
(* Text-analysis engine of the resume analyser (src/utils/analysis.py).   *)
(*                                                                         *)
(* A Python str is modelled as a sequence of characters, a character as a  *)
(* one-character string.  The three characters that cannot be written as   *)
(* such get a name: NL (line feed), TAB and BULLET (U+2022).  Operators    *)
(* keep the names of the functions they model.  The loops of the source    *)
(* that run over the characters or lines of a text are written as          *)
(* comprehensions over positions, and reductions split their range in two, *)
(* so that the evaluation depth grows with the logarithm of the length.    *)
(***************************************************************************)
EXTENDS Integers, Sequences, FiniteSets, TLC

VARIABLES
  op,            \* the analysis function that has run ("idle" before any call)
  resume_text,   \* argument resume_text / text of the call
  job_role,      \* argument job_role (None and "" behave alike in the code: both are <<>>)
  job_desc,      \* argument job_desc
  keywords,      \* argument role_keywords / keywords: a set of strings
  ret,           \* the value the call returned
  branch,        \* the return statement the call left by
  provider,      \* LLMClient.provider of the client of the request ("none" without a client)
  backend,       \* what the backend call of the request did: raised, or returned a text
  exc,           \* the exception the request ended with ("none" when it returned)
  calls,         \* the functions the handler of the request has called, in order
  aliased,       \* the role preset whose set the keyword set of the request is (0: none)
  catalogs       \* ROLE_PRESETS, DOMAIN_PRESETS, SECTION_ALIASES and CANONICAL_SECTIONS

vars == <<op, resume_text, job_role, job_desc, keywords, ret, branch,
          provider, backend, exc, calls, aliased, catalogs>>

----------------------------------------------------------------------------
(* Characters *)

NL     == "\n"
TAB    == "\t"
BULLET == "U+2022"

UpperLetters ==
  <<"A","B","C","D","E","F","G","H","I","J","K","L","M",
    "N","O","P","Q","R","S","T","U","V","W","X","Y","Z">>

LowerLetters ==
  <<"a","b","c","d","e","f","g","h","i","j","k","l","m",
    "n","o","p","q","r","s","t","u","v","w","x","y","z">>

Digits == <<"0","1","2","3","4","5","6","7","8","9">>

\* The characters of the model, in the order of their code points (the order
\* Python compares strings by).
Alphabet ==
  <<TAB, NL, " ", "!", "#", "&", "*", "+", ",", "-", ".", "/">> \o Digits
    \o <<":", "?">> \o UpperLetters \o <<"_">> \o LowerLetters \o <<BULLET>>

Range(s) == { s[i] : i \in DOMAIN s }

Chars == Range(Alphabet)

Ord == [c \in Chars |-> CHOOSE i \in DOMAIN Alphabet : Alphabet[i] = c]

Min(S) == CHOOSE x \in S : \A y \in S : x <= y
Max(S) == CHOOSE x \in S : \A y \in S : x >= y

IsLetter(c) == c \in Range(UpperLetters) \cup Range(LowerLetters)
IsDigit(c)  == c \in Range(Digits)
\* str.isspace / regex \s
IsSpace(c)  == c \in {" ", TAB, NL}
\* regex \w
IsWordChar(c) == IsLetter(c) \/ IsDigit(c) \/ c = "_"
\* str.splitlines line boundaries among the characters of the model
IsLineBreak(c) == c = NL

\* str.lower, one character
LowerChar ==
  [c \in Chars |->
     IF c \in Range(UpperLetters)
       THEN LowerLetters[CHOOSE i \in DOMAIN UpperLetters : UpperLetters[i] = c]
       ELSE c]

\* str.lower
Lower(s) == [i \in 1..Len(s) |-> LowerChar[s[i]]]

----------------------------------------------------------------------------
(* Sequences *)

\* The concatenation of F(lo), ..., F(hi), each a sequence.
RECURSIVE FlatMap(_, _, _)
FlatMap(F(_), lo, hi) ==
  IF lo > hi THEN <<>>
  ELSE IF lo = hi THEN F(lo)
  ELSE LET mid == (lo + hi) \div 2
       IN  FlatMap(F, lo, mid) \o FlatMap(F, mid + 1, hi)

\* [F(i) for i in 1..n]
Map(F(_), n) == FlatMap(LAMBDA i : <<F(i)>>, 1, n)

\* The sum of F(lo), ..., F(hi).
RECURSIVE SumOver(_, _, _)
SumOver(F(_), lo, hi) ==
  IF lo > hi THEN 0
  ELSE IF lo = hi THEN F(lo)
  ELSE LET mid == (lo + hi) \div 2
       IN  SumOver(F, lo, mid) + SumOver(F, mid + 1, hi)

\* seq[:n]
Take(seq, n) == SubSeq(seq, 1, IF Len(seq) < n THEN Len(seq) ELSE n)

\* [x for x in seq if P(x)]
Filter(seq, P(_)) == FlatMap(LAMBDA i : IF P(seq[i]) THEN <<seq[i]>> ELSE <<>>, 1, Len(seq))

\* pat occurs in s at position p
OccursAt(pat, s, p) ==
  /\ p >= 1
  /\ p + Len(pat) - 1 <= Len(s)
  /\ \A k \in 1..Len(pat) : s[p + k - 1] = pat[k]

\* Python's `pat in s` for strings
Contains(s, pat) == \E p \in 1..(Len(s) - Len(pat) + 1) : OccursAt(pat, s, p)

\* the first position at which a and b differ (one past the shorter if it is a
\* prefix of the other)
FirstDiff(a, b) ==
  CHOOSE i \in 1..(Len(a) + 1) :
    /\ (i > Len(a) \/ i > Len(b) \/ a[i] # b[i])
    /\ \A j \in 1..(i - 1) : j <= Len(b) /\ a[j] = b[j]

\* a < b as Python compares strings: by code point at the first difference, a
\* proper prefix first
LessAt(a, b, i) == i <= Len(b) /\ (i > Len(a) \/ Ord[a[i]] < Ord[b[i]])
StrLess(a, b)   == LessAt(a, b, FirstDiff(a, b))

\* sorted(S) for a set of strings: each string paired with the number of
\* strings of S that are less, then read in the order of that number
Ranked(S) == { <<Cardinality({ y \in S : StrLess(y, x) }), x>> : x \in S }

InRankOrder(R) == Map(LAMBDA k : (CHOOSE p \in R : p[1] = k - 1)[2], Cardinality(R))

Sorted(S) == InRankOrder(Ranked(S))

\* str.strip / str.rstrip: the positions of the characters that are not whitespace
Inked(s) == { i \in 1..Len(s) : ~IsSpace(s[i]) }
Strip(s)  == IF Inked(s) = {} THEN <<>> ELSE SubSeq(s, Min(Inked(s)), Max(Inked(s)))
RStrip(s) == IF Inked(s) = {} THEN <<>> ELSE SubSeq(s, 1, Max(Inked(s)))

\* the last position of the run of characters satisfying P that starts at i
RunEnd(s, i, P(_)) ==
  CHOOSE j \in i..Len(s) :
    /\ (j = Len(s) \/ ~P(s[j + 1]))
    /\ \A k \in i..j : P(s[k])

\* str.splitlines: a line starts at the first character and after every line
\* break that is not the last character; it ends before the next line break.
LineAt(text, i) ==
  IF IsLineBreak(text[i]) THEN <<>>
  ELSE SubSeq(text, i, RunEnd(text, i, LAMBDA c : ~IsLineBreak(c)))

SplitLines(text) ==
  FlatMap(LAMBDA i : IF i = 1 \/ IsLineBreak(text[i - 1])
                       THEN << LineAt(text, i) >>
                       ELSE <<>>,
          1, Len(text))

\* str.split(): the maximal runs of characters that are not whitespace
Words(s) ==
  FlatMap(LAMBDA i : IF ~IsSpace(s[i]) /\ (i = 1 \/ IsSpace(s[i - 1]))
                       THEN << SubSeq(s, i, RunEnd(s, i, LAMBDA c : ~IsSpace(c))) >>
                       ELSE <<>>,
          1, Len(s))

\* "\n".join(lines)
JoinLines(lines) ==
  FlatMap(LAMBDA i : IF i = 1 THEN lines[i] ELSE <<NL>> \o lines[i], 1, Len(lines))

----------------------------------------------------------------------------
(* simple_tokenize *)

\* [A-Za-z\-\+\#/0-9]
IsTokenChar(c) == IsLetter(c) \/ IsDigit(c) \/ c \in {"-", "+", "#", "/"}

\* re.findall scans left to right and resumes after each match, so a match
\* starts at a letter that no earlier match has consumed: a letter that is first
\* in the text, or follows a character outside the class, or follows a run of
\* class characters that holds no letter.
RECURSIVE NoLetterInRun(_, _)
NoLetterInRun(s, i) ==
  \/ i = 0
  \/ ~IsTokenChar(s[i])
  \/ (~IsLetter(s[i]) /\ NoLetterInRun(s, i - 1))

TokenStartsAt(s, i) == IsLetter(s[i]) /\ NoLetterInRun(s, i - 1)

\* the match is greedy: it runs to the last character of the class
TokenEnd(s, i) == RunEnd(s, i, IsTokenChar)

\* the matches in the lowered text s
TokensOf(s) ==
  FlatMap(LAMBDA i : IF TokenStartsAt(s, i)
                       THEN << SubSeq(s, i, TokenEnd(s, i)) >>
                       ELSE <<>>,
          1, Len(s))

simple_tokenize(text) == TokensOf(Lower(text))

----------------------------------------------------------------------------
(* Static catalogs *)

CANONICAL_SECTIONS ==
  <<"summary", "experience", "education", "skills", "projects", "certifications", "publications">>

\* Map of common aliases to canonical section names, in the order of the dict
SECTION_ALIASES ==
  <<
    [alias |-> <<"p","r","o","f","e","s","s","i","o","n","a","l"," ","s","u","m","m","a","r","y">>,
     section |-> "summary"],
    [alias |-> <<"p","r","o","f","i","l","e">>,
     section |-> "summary"],
    [alias |-> <<"o","b","j","e","c","t","i","v","e">>,
     section |-> "summary"],
    [alias |-> <<"w","o","r","k"," ","e","x","p","e","r","i","e","n","c","e">>,
     section |-> "experience"],
    [alias |-> <<"e","m","p","l","o","y","m","e","n","t">>,
     section |-> "experience"],
    [alias |-> <<"w","o","r","k"," ","h","i","s","t","o","r","y">>,
     section |-> "experience"],
    [alias |-> <<"p","r","o","f","e","s","s","i","o","n","a","l"," ","e","x","p","e","r","i","e","n","c","e">>,
     section |-> "experience"],
    [alias |-> <<"e","d","u","c","a","t","i","o","n">>,
     section |-> "education"],
    [alias |-> <<"a","c","a","d","e","m","i","c","s">>,
     section |-> "education"],
    [alias |-> <<"s","k","i","l","l","s">>,
     section |-> "skills"],
    [alias |-> <<"t","e","c","h","n","i","c","a","l"," ","s","k","i","l","l","s">>,
     section |-> "skills"],
    [alias |-> <<"p","r","o","j","e","c","t","s">>,
     section |-> "projects"],
    [alias |-> <<"p","e","r","s","o","n","a","l"," ","p","r","o","j","e","c","t","s">>,
     section |-> "projects"],
    [alias |-> <<"c","e","r","t","i","f","i","c","a","t","i","o","n","s">>,
     section |-> "certifications"],
    [alias |-> <<"l","i","c","e","n","s","e","s">>,
     section |-> "certifications"],
    [alias |-> <<"p","u","b","l","i","c","a","t","i","o","n","s">>,
     section |-> "publications"]
  >>

\* ROLE_PRESETS, in the order of the dict (the order `for key, vocab in ROLE_PRESETS.items()` visits)
ROLE_PRESETS ==
  <<
    [key |-> <<"d","a","t","a"," ","s","c","i","e","n","t","i","s","t">>,
     vocab |->
       { <<"p","y","t","h","o","n">>, <<"p","a","n","d","a","s">>, <<"n","u","m","p","y">>,
         <<"s","k","l","e","a","r","n">>, <<"t","e","n","s","o","r","f","l","o","w">>,
         <<"p","y","t","o","r","c","h">>, <<"s","q","l">>,
         <<"s","t","a","t","i","s","t","i","c","s">>, <<"m","l">>,
         <<"c","l","a","s","s","i","f","i","c","a","t","i","o","n">>,
         <<"r","e","g","r","e","s","s","i","o","n">>, <<"n","l","p">>,
         <<"f","e","a","t","u","r","e"," ","e","n","g","i","n","e","e","r","i","n","g">>,
         <<"m","o","d","e","l"," ","d","e","p","l","o","y","m","e","n","t">>,
         <<"e","x","p","e","r","i","m","e","n","t"," ","t","r","a","c","k","i","n","g">>,
         <<"t","a","b","l","e","a","u">>, <<"p","o","w","e","r","b","i">>, <<"a","w","s">>,
         <<"g","c","p">>, <<"a","z","u","r","e">>, <<"a","i","r","f","l","o","w">>,
         <<"m","l","f","l","o","w">> }],
    [key |-> <<"d","a","t","a"," ","a","n","a","l","y","s","t">>,
     vocab |->
       { <<"s","q","l">>, <<"e","x","c","e","l">>, <<"p","o","w","e","r","b","i">>,
         <<"t","a","b","l","e","a","u">>, <<"p","y","t","h","o","n">>, <<"p","a","n","d","a","s">>,
         <<"v","i","s","u","a","l","i","z","a","t","i","o","n">>,
         <<"d","a","s","h","b","o","a","r","d">>, <<"a","/","b"," ","t","e","s","t","i","n","g">>,
         <<"f","o","r","e","c","a","s","t","i","n","g">>, <<"e","t","l">>,
         <<"r","e","p","o","r","t","i","n","g">>, <<"s","t","a","t","i","s","t","i","c","s">>,
         <<"s","e","g","m","e","n","t","a","t","i","o","n">>, <<"g","a","4">>,
         <<"l","o","o","k","e","r","s","t","u","d","i","o">> }],
    [key |-> <<"s","o","f","t","w","a","r","e"," ","e","n","g","i","n","e","e","r">>,
     vocab |->
       { <<"j","a","v","a">>, <<"p","y","t","h","o","n">>,
         <<"j","a","v","a","s","c","r","i","p","t">>, <<"r","e","a","c","t">>, <<"n","o","d","e">>,
         <<"a","p","i">>, <<"r","e","s","t">>, <<"g","r","a","p","h","q","l">>,
         <<"d","o","c","k","e","r">>, <<"k","u","b","e","r","n","e","t","e","s">>, <<"g","i","t">>,
         <<"c","i","/","c","d">>, <<"u","n","i","t"," ","t","e","s","t","i","n","g">>,
         <<"m","i","c","r","o","s","e","r","v","i","c","e","s">>, <<"s","q","l">>,
         <<"n","o","s","q","l">>, <<"d","e","s","i","g","n"," ","p","a","t","t","e","r","n","s">>,
         <<"t","e","s","t","i","n","g">> }],
    [key |-> <<"f","r","o","n","t","e","n","d"," ","d","e","v","e","l","o","p","e","r">>,
     vocab |->
       { <<"j","a","v","a","s","c","r","i","p","t">>, <<"t","y","p","e","s","c","r","i","p","t">>,
         <<"r","e","a","c","t">>, <<"n","e","x","t",".","j","s">>, <<"r","e","d","u","x">>,
         <<"h","t","m","l">>, <<"c","s","s">>, <<"t","a","i","l","w","i","n","d">>,
         <<"v","i","t","e">>, <<"w","e","b","p","a","c","k">>,
         <<"a","c","c","e","s","s","i","b","i","l","i","t","y">>,
         <<"l","i","g","h","t","h","o","u","s","e">>, <<"j","e","s","t">>,
         <<"c","y","p","r","e","s","s">> }],
    [key |-> <<"b","a","c","k","e","n","d"," ","d","e","v","e","l","o","p","e","r">>,
     vocab |->
       { <<"n","o","d","e">>, <<"e","x","p","r","e","s","s">>, <<"j","a","v","a">>,
         <<"s","p","r","i","n","g">>, <<"p","y","t","h","o","n">>, <<"d","j","a","n","g","o">>,
         <<"f","l","a","s","k">>, <<"f","a","s","t","a","p","i">>, <<"r","e","s","t">>,
         <<"g","r","a","p","h","q","l">>, <<"s","q","l">>, <<"p","o","s","t","g","r","e","s">>,
         <<"m","y","s","q","l">>, <<"r","e","d","i","s">>, <<"d","o","c","k","e","r">>,
         <<"k","u","b","e","r","n","e","t","e","s">>,
         <<"m","i","c","r","o","s","e","r","v","i","c","e","s">>, <<"a","u","t","h">>,
         <<"q","u","e","u","e">>, <<"r","a","b","b","i","t","m","q">>, <<"k","a","f","k","a">> }],
    [key |-> <<"d","e","v","o","p","s"," ","e","n","g","i","n","e","e","r">>,
     vocab |->
       { <<"d","o","c","k","e","r">>, <<"k","u","b","e","r","n","e","t","e","s">>,
         <<"t","e","r","r","a","f","o","r","m">>, <<"a","n","s","i","b","l","e">>, <<"a","w","s">>,
         <<"g","c","p">>, <<"a","z","u","r","e">>, <<"c","i","/","c","d">>,
         <<"g","i","t","h","u","b"," ","a","c","t","i","o","n","s">>,
         <<"g","i","t","l","a","b"," ","c","i">>, <<"m","o","n","i","t","o","r","i","n","g">>,
         <<"p","r","o","m","e","t","h","e","u","s">>, <<"g","r","a","f","a","n","a">>,
         <<"h","e","l","m">>, <<"i","s","t","i","o">>, <<"a","r","g","o","c","d">> }],
    [key |-> <<"c","l","o","u","d"," ","a","r","c","h","i","t","e","c","t">>,
     vocab |->
       { <<"a","w","s">>, <<"g","c","p">>, <<"a","z","u","r","e">>, <<"i","a","m">>,
         <<"v","p","c">>, <<"l","o","a","d"," ","b","a","l","a","n","c","e","r">>,
         <<"s","c","a","l","a","b","i","l","i","t","y">>,
         <<"c","o","s","t"," ","o","p","t","i","m","i","z","a","t","i","o","n">>,
         <<"s","e","r","v","e","r","l","e","s","s">>, <<"l","a","m","b","d","a">>,
         <<"c","l","o","u","d","f","o","r","m","a","t","i","o","n">>,
         <<"t","e","r","r","a","f","o","r","m">>, <<"k","u","b","e","r","n","e","t","e","s">>,
         <<"d","i","s","a","s","t","e","r"," ","r","e","c","o","v","e","r","y">> }],
    [key |-> <<"p","r","o","d","u","c","t"," ","m","a","n","a","g","e","r">>,
     vocab |->
       { <<"r","o","a","d","m","a","p">>, <<"s","t","a","k","e","h","o","l","d","e","r","s">>,
         <<"r","e","q","u","i","r","e","m","e","n","t","s">>,
         <<"u","s","e","r"," ","r","e","s","e","a","r","c","h">>, <<"k","p","i">>,
         <<"o","k","r","s">>, <<"b","a","c","k","l","o","g">>,
         <<"p","r","i","o","r","i","t","i","z","a","t","i","o","n">>,
         <<"g","o"," ","t","o"," ","m","a","r","k","e","t">>,
         <<"a","/","b"," ","t","e","s","t","i","n","g">>, <<"a","n","a","l","y","t","i","c","s">>,
         <<"j","i","r","a">>, <<"w","i","r","e","f","r","a","m","e","s">>, <<"s","p","e","c","s">> }],
    [key |-> <<"u","x"," ","d","e","s","i","g","n","e","r">>,
     vocab |->
       { <<"u","x"," ","r","e","s","e","a","r","c","h">>,
         <<"w","i","r","e","f","r","a","m","i","n","g">>,
         <<"p","r","o","t","o","t","y","p","i","n","g">>, <<"f","i","g","m","a">>,
         <<"u","s","a","b","i","l","i","t","y"," ","t","e","s","t","i","n","g">>,
         <<"i","n","f","o","r","m","a","t","i","o","n"," ","a","r","c","h","i","t","e","c","t","u","r","e">>,
         <<"h","e","u","r","i","s","t","i","c"," ","e","v","a","l","u","a","t","i","o","n">>,
         <<"d","e","s","i","g","n"," ","s","y","s","t","e","m">>,
         <<"a","c","c","e","s","s","i","b","i","l","i","t","y">>, <<"p","e","r","s","o","n","a">>,
         <<"j","o","u","r","n","e","y"," ","m","a","p">> }],
    [key |-> <<"b","u","s","i","n","e","s","s"," ","a","n","a","l","y","s","t">>,
     vocab |->
       { <<"r","e","q","u","i","r","e","m","e","n","t","s">>,
         <<"p","r","o","c","e","s","s"," ","m","a","p","p","i","n","g">>, <<"s","q","l">>,
         <<"e","x","c","e","l">>, <<"d","a","s","h","b","o","a","r","d","s">>,
         <<"s","t","a","k","e","h","o","l","d","e","r"," ","m","a","n","a","g","e","m","e","n","t">>,
         <<"g","a","p"," ","a","n","a","l","y","s","i","s">>, <<"k","p","i">>,
         <<"u","s","e","r"," ","s","t","o","r","i","e","s">>,
         <<"c","o","n","f","l","u","e","n","c","e">>, <<"j","i","r","a">> }],
    [key |-> <<"m","a","r","k","e","t","i","n","g"," ","m","a","n","a","g","e","r">>,
     vocab |->
       { <<"s","e","o">>, <<"s","e","m">>,
         <<"c","o","n","t","e","n","t"," ","s","t","r","a","t","e","g","y">>,
         <<"c","a","m","p","a","i","g","n","s">>, <<"g","o","o","g","l","e"," ","a","d","s">>,
         <<"f","a","c","e","b","o","o","k"," ","a","d","s">>,
         <<"a","n","a","l","y","t","i","c","s">>, <<"c","r","m">>,
         <<"a","/","b"," ","t","e","s","t","i","n","g">>,
         <<"e","m","a","i","l"," ","m","a","r","k","e","t","i","n","g">>,
         <<"a","u","t","o","m","a","t","i","o","n">>,
         <<"b","r","a","n","d"," ","s","t","r","a","t","e","g","y">>, <<"r","o","i">> }],
    [key |-> <<"c","y","b","e","r","s","e","c","u","r","i","t","y"," ","a","n","a","l","y","s","t">>,
     vocab |->
       { <<"s","i","e","m">>, <<"s","p","l","u","n","k">>, <<"w","a","z","u","h">>,
         <<"i","d","s","/","i","p","s">>,
         <<"v","u","l","n","e","r","a","b","i","l","i","t","y"," ","m","a","n","a","g","e","m","e","n","t">>,
         <<"t","h","r","e","a","t"," ","h","u","n","t","i","n","g">>,
         <<"i","n","c","i","d","e","n","t"," ","r","e","s","p","o","n","s","e">>,
         <<"n","m","a","p">>, <<"w","i","r","e","s","h","a","r","k">>, <<"l","i","n","u","x">>,
         <<"m","i","t","r","e"," ","a","t","t","&","c","k">>,
         <<"r","i","s","k"," ","a","s","s","e","s","s","m","e","n","t">> }],
    [key |-> <<"q","a"," ","e","n","g","i","n","e","e","r">>,
     vocab |->
       { <<"t","e","s","t"," ","c","a","s","e","s">>, <<"t","e","s","t"," ","p","l","a","n","s">>,
         <<"m","a","n","u","a","l"," ","t","e","s","t","i","n","g">>,
         <<"a","u","t","o","m","a","t","i","o","n">>, <<"s","e","l","e","n","i","u","m">>,
         <<"c","y","p","r","e","s","s">>, <<"j","e","s","t">>, <<"p","y","t","e","s","t">>,
         <<"c","i","/","c","d">>, <<"r","e","g","r","e","s","s","i","o","n">>,
         <<"i","n","t","e","g","r","a","t","i","o","n">>,
         <<"p","e","r","f","o","r","m","a","n","c","e"," ","t","e","s","t","i","n","g">> }],
    [key |-> <<"h","o","u","s","e","k","e","e","p","e","r">>,
     vocab |->
       { <<"c","l","e","a","n","i","n","g">>, <<"s","a","n","i","t","i","z","i","n","g">>,
         <<"l","a","u","n","d","r","y">>, <<"o","r","g","a","n","i","z","a","t","i","o","n">>,
         <<"t","i","m","e"," ","m","a","n","a","g","e","m","e","n","t">>,
         <<"a","t","t","e","n","t","i","o","n"," ","t","o"," ","d","e","t","a","i","l">>,
         <<"i","n","v","e","n","t","o","r","y">>,
         <<"s","a","f","e","t","y"," ","p","r","o","c","e","d","u","r","e","s">>,
         <<"g","u","e","s","t"," ","s","e","r","v","i","c","e">>,
         <<"h","o","u","s","e","k","e","e","p","i","n","g">>,
         <<"v","a","c","u","u","m","i","n","g">>, <<"m","o","p","p","i","n","g">>,
         <<"d","i","s","i","n","f","e","c","t","i","o","n">> }]
  >>

\* DOMAIN_PRESETS, in the order of the dict (the order `for key, vocab in DOMAIN_PRESETS.items()` visits)
DOMAIN_PRESETS ==
  <<
    [key |-> <<"d","a","t","a"," ","s","c","i","e","n","t","i","s","t">>,
     vocab |->
       { <<"r","e","g","r","e","s","s","i","o","n">>,
         <<"c","l","a","s","s","i","f","i","c","a","t","i","o","n">>, <<"n","l","p">>,
         <<"f","e","a","t","u","r","e"," ","e","n","g","i","n","e","e","r","i","n","g">>,
         <<"m","o","d","e","l"," ","d","e","p","l","o","y","m","e","n","t">>,
         <<"e","x","p","e","r","i","m","e","n","t"," ","t","r","a","c","k","i","n","g">>,
         <<"m","l">> }],
    [key |-> <<"d","a","t","a"," ","a","n","a","l","y","s","t">>,
     vocab |->
       { <<"a","/","b"," ","t","e","s","t","i","n","g">>,
         <<"f","o","r","e","c","a","s","t","i","n","g">>, <<"e","t","l">>,
         <<"s","e","g","m","e","n","t","a","t","i","o","n">>,
         <<"r","e","p","o","r","t","i","n","g">> }],
    [key |-> <<"f","r","o","n","t","e","n","d"," ","d","e","v","e","l","o","p","e","r">>,
     vocab |->
       { <<"a","c","c","e","s","s","i","b","i","l","i","t","y">>,
         <<"l","i","g","h","t","h","o","u","s","e">>,
         <<"p","e","r","f","o","r","m","a","n","c","e">>, <<"u","x">> }],
    [key |-> <<"b","a","c","k","e","n","d"," ","d","e","v","e","l","o","p","e","r">>,
     vocab |->
       { <<"m","i","c","r","o","s","e","r","v","i","c","e","s">>, <<"q","u","e","u","e">>,
         <<"a","u","t","h">>, <<"c","a","c","h","i","n","g">> }],
    [key |-> <<"d","e","v","o","p","s"," ","e","n","g","i","n","e","e","r">>,
     vocab |->
       { <<"m","o","n","i","t","o","r","i","n","g">>,
         <<"o","b","s","e","r","v","a","b","i","l","i","t","y">>,
         <<"i","n","f","r","a","s","t","r","u","c","t","u","r","e"," ","a","s"," ","c","o","d","e">>,
         <<"s","r","e">>, <<"b","l","u","e","/","g","r","e","e","n">> }],
    [key |-> <<"c","l","o","u","d"," ","a","r","c","h","i","t","e","c","t">>,
     vocab |->
       { <<"d","i","s","a","s","t","e","r"," ","r","e","c","o","v","e","r","y">>,
         <<"c","o","s","t"," ","o","p","t","i","m","i","z","a","t","i","o","n">>,
         <<"s","c","a","l","a","b","i","l","i","t","y">>,
         <<"m","u","l","t","i"," ","r","e","g","i","o","n">> }],
    [key |-> <<"p","r","o","d","u","c","t"," ","m","a","n","a","g","e","r">>,
     vocab |->
       { <<"r","o","a","d","m","a","p">>,
         <<"p","r","i","o","r","i","t","i","z","a","t","i","o","n">>, <<"o","k","r","s">>,
         <<"k","p","i">>, <<"g","o"," ","t","o"," ","m","a","r","k","e","t">> }],
    [key |-> <<"u","x"," ","d","e","s","i","g","n","e","r">>,
     vocab |->
       { <<"u","s","a","b","i","l","i","t","y"," ","t","e","s","t","i","n","g">>,
         <<"j","o","u","r","n","e","y"," ","m","a","p">>, <<"p","e","r","s","o","n","a">>,
         <<"h","e","u","r","i","s","t","i","c"," ","e","v","a","l","u","a","t","i","o","n">> }],
    [key |-> <<"b","u","s","i","n","e","s","s"," ","a","n","a","l","y","s","t">>,
     vocab |->
       { <<"g","a","p"," ","a","n","a","l","y","s","i","s">>,
         <<"p","r","o","c","e","s","s"," ","m","a","p","p","i","n","g">>,
         <<"r","e","q","u","i","r","e","m","e","n","t","s">> }],
    [key |-> <<"m","a","r","k","e","t","i","n","g"," ","m","a","n","a","g","e","r">>,
     vocab |->
       { <<"c","a","m","p","a","i","g","n","s">>, <<"r","o","i">>, <<"f","u","n","n","e","l">>,
         <<"b","r","a","n","d"," ","s","t","r","a","t","e","g","y">> }],
    [key |-> <<"c","y","b","e","r","s","e","c","u","r","i","t","y"," ","a","n","a","l","y","s","t">>,
     vocab |->
       { <<"t","h","r","e","a","t"," ","h","u","n","t","i","n","g">>,
         <<"i","n","c","i","d","e","n","t"," ","r","e","s","p","o","n","s","e">>,
         <<"r","i","s","k"," ","a","s","s","e","s","s","m","e","n","t">> }],
    [key |-> <<"q","a"," ","e","n","g","i","n","e","e","r">>,
     vocab |->
       { <<"t","e","s","t"," ","p","l","a","n","s">>, <<"r","e","g","r","e","s","s","i","o","n">>,
         <<"p","e","r","f","o","r","m","a","n","c","e"," ","t","e","s","t","i","n","g">> }],
    [key |-> <<"h","o","u","s","e","k","e","e","p","e","r">>,
     vocab |->
       { <<"c","l","e","a","n","i","n","g">>, <<"s","a","n","i","t","i","z","i","n","g">>,
         <<"h","o","u","s","e","k","e","e","p","i","n","g">>, <<"l","a","u","n","d","r","y">>,
         <<"o","r","g","a","n","i","z","a","t","i","o","n">>,
         <<"s","a","f","e","t","y"," ","p","r","o","c","e","d","u","r","e","s">>,
         <<"g","u","e","s","t"," ","s","e","r","v","i","c","e">>,
         <<"d","i","s","i","n","f","e","c","t","i","o","n">>,
         <<"v","a","c","u","u","m","i","n","g">>, <<"m","o","p","p","i","n","g">> }]
  >>

\* categorize_keywords: soft
SoftSkills ==
  { <<"c","o","m","m","u","n","i","c","a","t","i","o","n">>,
    <<"l","e","a","d","e","r","s","h","i","p">>,
    <<"c","o","l","l","a","b","o","r","a","t","i","o","n">>,
    <<"t","i","m","e"," ","m","a","n","a","g","e","m","e","n","t">>,
    <<"a","t","t","e","n","t","i","o","n"," ","t","o"," ","d","e","t","a","i","l">>,
    <<"c","u","s","t","o","m","e","r"," ","s","e","r","v","i","c","e">>,
    <<"p","r","o","b","l","e","m"," ","s","o","l","v","i","n","g">>,
    <<"t","e","a","m","w","o","r","k">>,
    <<"s","t","a","k","e","h","o","l","d","e","r"," ","m","a","n","a","g","e","m","e","n","t">>,
    <<"p","r","e","s","e","n","t","a","t","i","o","n">> }

\* categorize_keywords: tools
ToolsTech ==
  { <<"p","y","t","h","o","n">>, <<"j","a","v","a">>, <<"s","q","l">>, <<"e","x","c","e","l">>,
    <<"t","a","b","l","e","a","u">>, <<"p","o","w","e","r","b","i">>, <<"d","o","c","k","e","r">>,
    <<"k","u","b","e","r","n","e","t","e","s">>, <<"g","i","t">>, <<"j","i","r","a">>,
    <<"r","e","a","c","t">>, <<"n","o","d","e">>, <<"t","e","n","s","o","r","f","l","o","w">>,
    <<"p","y","t","o","r","c","h">>, <<"t","e","r","r","a","f","o","r","m">>,
    <<"a","n","s","i","b","l","e">>, <<"a","w","s">>, <<"g","c","p">>, <<"a","z","u","r","e">>,
    <<"p","o","s","t","g","r","e","s">>, <<"m","y","s","q","l">>, <<"r","e","d","i","s">>,
    <<"k","a","f","k","a">>, <<"f","i","g","m","a">>, <<"s","e","l","e","n","i","u","m">>,
    <<"c","y","p","r","e","s","s">> }

\* detect_sections: heuristics, in the order of the dict
Heuristics ==
  <<
    [sec |-> "summary",
     kws |-> <<<<"s","u","m","m","a","r","y">>, <<"o","b","j","e","c","t","i","v","e">>, <<"p","r","o","f","i","l","e">>>>],
    [sec |-> "experience",
     kws |-> <<<<"e","x","p","e","r","i","e","n","c","e">>, <<"m","a","n","a","g","e","d">>, <<"l","e","a","d">>, <<"d","e","v","e","l","o","p","e","d">>, <<"r","e","s","p","o","n","s","i","b","l","e">>, <<"a","c","h","i","e","v","e","d">>>>],
    [sec |-> "education",
     kws |-> <<<<"b","s","c">>, <<"m","s","c">>, <<"u","n","i","v","e","r","s","i","t","y">>, <<"d","e","g","r","e","e">>, <<"g","p","a">>, <<"b","a","c","h","e","l","o","r">>, <<"m","a","s","t","e","r">>>>],
    [sec |-> "skills",
     kws |-> <<<<"s","k","i","l","l","s">>, <<"p","y","t","h","o","n">>, <<"j","a","v","a">>, <<"s","q","l">>, <<"e","x","c","e","l">>, <<"c","o","m","m","u","n","i","c","a","t","i","o","n">>>>],
    [sec |-> "projects",
     kws |-> <<<<"p","r","o","j","e","c","t">>, <<"b","u","i","l","t">>, <<"i","m","p","l","e","m","e","n","t","e","d">>, <<"d","e","s","i","g","n","e","d">>>>],
    [sec |-> "certifications",
     kws |-> <<<<"c","e","r","t","i","f","i","e","d">>, <<"c","e","r","t","i","f","i","c","a","t","e">>, <<"c","e","r","t","i","f","i","c","a","t","i","o","n">>>>],
    [sec |-> "publications",
     kws |-> <<<<"p","u","b","l","i","c","a","t","i","o","n">>, <<"j","o","u","r","n","a","l">>, <<"c","o","n","f","e","r","e","n","c","e">>>>]
  >>

\* suggest_quantified_achievements: vague_patterns
vague_patterns ==
  <<<<"r","e","s","p","o","n","s","i","b","l","e"," ","f","o","r">>,
    <<"w","o","r","k","e","d"," ","o","n">>,
    <<"h","e","l","p","e","d"," ","w","i","t","h">>,
    <<"a","s","s","i","s","t","e","d">>,
    <<"i","n","v","o","l","v","e","d"," ","i","n">>>>

----------------------------------------------------------------------------
(* role_keywords_for *)

\* the loop without its `return`: the last matching entry wins
\* (PresetWins tells it from FirstPresetMatch)
LastPresetMatch(catalog, role_text) ==
  LET hits == { i \in DOMAIN catalog : Contains(role_text, catalog[i].key) }
  IN  IF hits = {} THEN 0 ELSE Max(hits)

\* The first entry of a preset catalog whose key is a substring of role_text
\* (the `for key, vocab in ....items(): if key in role_text` loops), 0 if none.
FirstPresetMatch(catalog, role_text) ==
  LET hits == { i \in DOMAIN catalog : Contains(role_text, catalog[i].key) }
  IN  IF hits = {} THEN 0 ELSE Min(hits)

\* [w for w, _ in Counter(tokens).most_common(n)]: the distinct tokens by
\* descending count, equal counts in the order of first occurrence.
\* The distinct tokens are named by the position of their first occurrence.
FirstOccurrences(tokens) ==
  { i \in DOMAIN tokens : \A j \in 1..(i - 1) : tokens[j] # tokens[i] }

CountOf(tokens) ==
  Map(LAMBDA i : Cardinality({ j \in DOMAIN tokens : tokens[j] = tokens[i] }), Len(tokens))

\* each first occurrence i paired with the number of distinct tokens that come
\* before it: those with a greater count, or an equal count and seen earlier
CommonRank(firsts, cnt) ==
  { <<Cardinality({ j \in firsts : cnt[j] > cnt[i] \/ (cnt[j] = cnt[i] /\ j < i) }), i>> :
      i \in firsts }

CommonOrder(tokens, R) ==
  Map(LAMBDA k : tokens[(CHOOSE p \in R : p[1] = k - 1)[2]], Cardinality(R))

\* the first n distinct tokens, whatever their counts
\* (NoPresetTakesMostFrequent tells it from MostCommon)
FirstTokens(tokens, n) ==
  Take(Map(LAMBDA k : tokens[CHOOSE i \in FirstOccurrences(tokens) :
                             Cardinality({ j \in FirstOccurrences(tokens) : j < i }) = k - 1],
           Cardinality(FirstOccurrences(tokens))), n)

MostCommon(tokens, n) ==
  Take(CommonOrder(tokens, CommonRank(FirstOccurrences(tokens), CountOf(tokens))), n)

\* the comprehension without its condition: every token is kept
\* (KeywordsEmptyExactlyWhen tells it from LongTokens)
AnyTokens(tokens) == tokens

\* [t for t in simple_tokenize(job_desc) if len(t) >= 3]
LongTokens(tokens) == Filter(tokens, LAMBDA t : Len(t) >= 3)

\* the value returned, with the return statement that returned it
RoleKeywords(role_text, desc, text, hit) ==
  IF hit # 0
    THEN [via |-> "preset", value |-> ROLE_PRESETS[hit].vocab]
  ELSE IF desc # <<>>
    THEN [via   |-> "job_desc",
          value |-> Range(MostCommon(LongTokens(simple_tokenize(desc)), 60))]
  ELSE [via |-> "resume", value |-> Range(MostCommon(simple_tokenize(text), 40))]

RoleKeywordsOutcome(role, desc, text) ==
  RoleKeywords(Lower(role), desc, text, FirstPresetMatch(ROLE_PRESETS, Lower(role)))

role_keywords_for(role, desc, text) == RoleKeywordsOutcome(role, desc, text).value

----------------------------------------------------------------------------
(* categorize_keywords *)

BucketNames == {"Soft skills", "Tools/Tech", "Domain", "Other"}

\* the chain without its `elif k in domain` arm
\* (BucketsPartition tells it from BucketOf)
BucketOfNoDomain(k, domain) ==
  IF k \in SoftSkills THEN "Soft skills"
  ELSE IF k \in ToolsTech THEN "Tools/Tech"
  ELSE "Other"

\* the if / elif chain of the loop body
BucketOf(k, domain) ==
  IF k \in SoftSkills THEN "Soft skills"
  ELSE IF k \in ToolsTech THEN "Tools/Tech"
  ELSE IF k \in domain THEN "Domain"
  ELSE "Other"

categorize_keywords(role, kws) ==
  LET role_text == Lower(role)
      hit       == FirstPresetMatch(DOMAIN_PRESETS, role_text)
      domain    == IF hit # 0 THEN DOMAIN_PRESETS[hit].vocab ELSE {}
      ordered   == Sorted(kws)
  IN  [b \in BucketNames |-> Filter(ordered, LAMBDA k : BucketOf(k, domain) = b)]
----------------------------------------------------------------------------
(* Python floats *)

(***************************************************************************)
(* compute_ats_score computes the score in Python floats (IEEE 754         *)
(* doubles) and truncates the result with int().  The rounding of each     *)
(* operation decides the integer that comes out (1.0 - 4 / 5 is less than  *)
(* a fifth, and 60 times it is less than 12), so the operations the        *)
(* function uses are modelled bit for bit.  A non-negative double is the   *)
(* set of the exponents of its binary digits: {0, -2} is 1.25.             *)
(***************************************************************************)

\* binary digits a double keeps
Precision == 53

\* the binary digits of a natural number
NatBits(n) == { e \in 0..30 : (n \div (2 ^ e)) % 2 = 1 }

\* int(x) for a non-negative double below 2^31: the digits left of the point
Trunc(X) == SumOver(LAMBDA e : IF e \in X THEN 2 ^ e ELSE 0, 0, 30)

Shift(X, s) == { e + s : e \in X }

\* a carry enters digit e when some lower digit is set in both numbers and
\* every digit in between is set in one of them
CarryInto(X, Y, e) ==
  \E j \in X \cap Y : j < e /\ \A k \in (j + 1)..(e - 1) : k \in X \/ k \in Y

\* X + Y, exact
Plus(X, Y) ==
  IF X = {} THEN Y ELSE IF Y = {} THEN X
  ELSE { e \in Min(X \cup Y)..(Max(X \cup Y) + 1) :
           ((e \in X) # (e \in Y)) # CarryInto(X, Y, e) }

\* a borrow leaves digit e when some lower digit is set in Y only and no digit
\* in between is set in X only
BorrowFrom(X, Y, e) ==
  \E j \in Y \ X : j < e /\ \A k \in (j + 1)..(e - 1) : k \notin X \/ k \in Y

\* X - Y, exact, for X >= Y
Minus(X, Y) ==
  IF Y = {} THEN X
  ELSE { e \in Min(X \cup Y)..Max(X \cup Y) :
           ((e \in X) # (e \in Y)) # BorrowFrom(X, Y, e) }

\* Round to nearest, ties to even, to Precision digits.  X holds the digits
\* down to the one after the last kept (at least); sticky tells that the
\* exact value has further digits below those of X.
RoundTo(X, sticky) ==
  IF X = {} THEN {}
  ELSE LET last == Max(X) - (Precision - 1)
           kept == { e \in X : e >= last }
           more == sticky \/ \E e \in X : e < last - 1
       IN  IF (last - 1) \in X /\ (more \/ last \in X)
             THEN Plus(kept, {last})
             ELSE kept

\* 2^i mod q
RECURSIVE Pow2Mod(_, _)
SquareMod(h, twice, q) == (((h * h) % q) * (IF twice THEN 2 ELSE 1)) % q
Pow2Mod(i, q) == IF i = 0 THEN 1 % q ELSE SquareMod(Pow2Mod(i \div 2, q), i % 2 = 1, q)

\* the remainder of p * 2^i by q, and the digit of p / q at exponent -i (i >= 1)
RemAt(p, q, i)   == ((p % q) * Pow2Mod(i, q)) % q
DigitAt(p, q, i) == (2 * RemAt(p, q, i - 1)) \div q

\* the digits of p / q down to exponent -depth
QuotientBits(p, q, depth) ==
  NatBits(p \div q) \cup { -i : i \in { k \in 1..depth : DigitAt(p, q, k) = 1 } }

\* digits of a quotient that are enough to round it: the leading digit of
\* p / q, with 0 < p and q < 2^10, is above exponent -11
DivDepth == Precision + 13

\* float(p) / float(q) for naturals p and q, q > 0
FDiv(p, q) == RoundTo(QuotientBits(p, q, DivDepth), RemAt(p, q, DivDepth) # 0)

FAdd(X, Y) == RoundTo(Plus(X, Y), FALSE)
FSub(X, Y) == RoundTo(Minus(X, Y), FALSE)

\* float(n) * X for a natural n
RECURSIVE TimesNat(_, _)
TimesNat(n, X) ==
  IF n = 0 THEN {}
  ELSE IF n % 2 = 1 THEN Plus(X, Shift(TimesNat(n \div 2, X), 1))
  ELSE Shift(TimesNat(n \div 2, X), 1)

FMul(n, X) == RoundTo(TimesNat(n, X), FALSE)

One == {0}

\* X <= Y
RECURSIVE LessEq(_, _)
LessEq(X, Y) ==
  \/ X = {}
  \/ /\ Y # {}
     /\ \/ Max(X) < Max(Y)
        \/ Max(X) = Max(Y) /\ LessEq(X \ {Max(X)}, Y \ {Max(Y)})

\* min(X, Y)
FMin(X, Y) == IF LessEq(X, Y) THEN X ELSE Y

----------------------------------------------------------------------------
(* detect_sections *)

\* lines = [l.rstrip() for l in text.splitlines() if l.strip()]
NonBlankLines(text) ==
  FlatMap(LAMBDA i : IF i = 1 \/ IsLineBreak(text[i - 1])
                       THEN IF Inked(LineAt(text, i)) = {} THEN <<>>
                            ELSE << RStrip(LineAt(text, i)) >>
                       ELSE <<>>,
          1, Len(text))

\* regex \b between s[k] and s[k + 1] (k = 0 and k = Len(s) are the ends)
IsWordAt(s, k) == k >= 1 /\ k <= Len(s) /\ IsWordChar(s[k])
WordBoundary(s, k) == IsWordAt(s, k) # IsWordAt(s, k + 1)

\* re.compile(rf"\b{re.escape(alias)}\b", re.IGNORECASE).search(lower)
AliasFound(alias, lower) ==
  \E p \in 1..(Len(lower) - Len(alias) + 1) :
    /\ OccursAt(alias, lower, p)
    /\ WordBoundary(lower, p - 1)
    /\ WordBoundary(lower, p + Len(alias) - 1)

NoSection == "(none)"

\* the inner loop: the section of the first alias, in the order of the
\* table, found in the line; NoSection if there is none
MatchedSection(line) ==
  LET hits == { a \in DOMAIN SECTION_ALIASES :
                  AliasFound(SECTION_ALIASES[a].alias, Lower(line)) }
  IN  IF hits = {} THEN NoSection ELSE SECTION_ALIASES[Min(hits)].section

\* is_heading = len(line) <= 120
IsHeading(line) == Len(line) <= 120

\* a line of any length switches `current`
\* (PassOneWeighsLines tells it from SwitchTo)
SwitchToAnyLength(line) == MatchedSection(line)

\* the section a line switches `current` to, NoSection if it does not
SwitchTo(line) ==
  IF IsHeading(line) THEN MatchedSection(line) ELSE NoSection

\* `current` when the i-th line is counted: "summary" until a line switches
\* it, then the section of the last line, up to the i-th, that did
CurrentAt(switches, i) ==
  LET done == { j \in 1..i : switches[j] # NoSection }
  IN  IF done = {} THEN "summary" ELSE switches[Max(done)]

\* max(1, len(line) // 60)
LineWeight(line) == IF Len(line) \div 60 > 1 THEN Len(line) \div 60 ELSE 1

\* section_lengths after the loop, from the lines, the value of `current` at
\* each line and the weight of each line
Tally(current, weight) ==
  [sec \in Range(current) |->
     SumOver(LAMBDA i : IF current[i] = sec THEN weight[i] ELSE 0, 1, Len(current))]

SectionLengths(lines, switches) ==
  Tally(Map(LAMBDA i : CurrentAt(switches, i), Len(lines)),
        Map(LAMBDA i : LineWeight(lines[i]), Len(lines)))

\* pass 1
HeadingPass(lines) ==
  SectionLengths(lines, Map(LAMBDA i : SwitchTo(lines[i]), Len(lines)))

\* non_other = {k: v for k, v in section_lengths.items() if k in CANONICAL_SECTIONS}
NonOther(section_lengths) ==
  [sec \in DOMAIN section_lengths \cap Range(CANONICAL_SECTIONS) |-> section_lengths[sec]]

\* sum(d.values()) for a dict keyed by section names
SumValues(d) ==
  SumOver(LAMBDA i : IF CANONICAL_SECTIONS[i] \in DOMAIN d THEN d[CANONICAL_SECTIONS[i]] ELSE 0,
          1, Len(CANONICAL_SECTIONS))

\* the test on the number of sections instead of on an empty map
\* (FallbackIffSparse tells it from TooSparse)
TooFewSections(non_other) ==
  Cardinality(DOMAIN non_other) < 2 \/ SumValues(non_other) < 3

\* if not non_other or sum(non_other.values()) < 3
TooSparse(non_other) == DOMAIN non_other = {} \/ SumValues(non_other) < 3

\* counts.get(k, 0)
Occurrences(tokens, k) == Cardinality({ i \in DOMAIN tokens : tokens[i] = k })

\* fallback[sec] = sum(counts.get(k, 0) for k in kws), then the normalisation
\* of the weights that are positive: max(1, fallback[k] // 2)
FallbackWeight(tokens, kws) ==
  LET total == SumOver(LAMBDA j : Occurrences(tokens, kws[j]), 1, Len(kws))
  IN  IF total > 0 THEN (IF total \div 2 > 1 THEN total \div 2 ELSE 1) ELSE total

FallbackWeights(tokens) ==
  Map(LAMBDA h : FallbackWeight(tokens, Heuristics[h].kws), Len(Heuristics))

\* the weights keyed by a label made from the section name instead of the
\* name itself (SectionsCanonical tells it from Positive)
PositiveByLabel(weights) ==
  [label \in { Heuristics[h].sec \o "_kw" : h \in { g \in DOMAIN Heuristics : weights[g] > 0 } } |->
     weights[CHOOSE h \in DOMAIN Heuristics : Heuristics[h].sec \o "_kw" = label]]

\* return {k: v for k, v in fallback.items() if v > 0}
Positive(weights) ==
  [sec \in { Heuristics[h].sec : h \in { g \in DOMAIN Heuristics : weights[g] > 0 } } |->
     weights[CHOOSE h \in DOMAIN Heuristics : Heuristics[h].sec = sec]]

\* pass 2
KeywordPass(text) == Positive(FallbackWeights(simple_tokenize(text)))

\* the value returned, with the return statement that returned it
ChoosePass(text, non_other) ==
  IF TooSparse(non_other)
    THEN [via |-> "fallback", value |-> KeywordPass(text)]
    ELSE [via |-> "pass1", value |-> non_other]

SectionsOutcome(text) == ChoosePass(text, NonOther(HeadingPass(NonBlankLines(text))))

detect_sections(text) == SectionsOutcome(text).value

----------------------------------------------------------------------------
(* compute_ats_score *)

\* the missing fraction, not subtracted from 1.0
\* (ScoreInRange tells it from Coverage)
MissingFraction(n_missing, n_keywords) ==
  FDiv(n_missing, IF n_keywords > 1 THEN n_keywords ELSE 1)

\* coverage = 1.0 - (len(missing) / max(1, len(role_keywords)))
Coverage(n_missing, n_keywords) ==
  FSub(One, FDiv(n_missing, IF n_keywords > 1 THEN n_keywords ELSE 1))

\* the sum rounded to the nearest integer, int(x + 0.5), instead of cut
\* (ScoreIsTruncation tells it from RawScore)
RoundedScore(coverage, n_sections) ==
  Trunc(FAdd(FAdd(FMul(60, coverage), FMul(40, FMin(One, FDiv(n_sections, 6)))),
             Shift(One, -1)))

\* score = int(60 * coverage + 40 * min(1.0, len(section_info) / 6.0))
RawScore(coverage, n_sections) ==
  Trunc(FAdd(FMul(60, coverage), FMul(40, FMin(One, FDiv(n_sections, 6)))))

\* max(0, min(100, score))
Clamp(score) == IF score > 100 THEN 100 ELSE IF score < 0 THEN 0 ELSE score

\* the sorted keywords without the test against the tokens of the text
\* (MissingKeywordsListed tells it from Missing)
AllKeywords(token_set, role_keywords) == Sorted(role_keywords)

\* missing = sorted([k for k in role_keywords if k not in token_set])
Missing(token_set, role_keywords) == Sorted({ k \in role_keywords : k \notin token_set })

AtsResult(missing, n_keywords, section_info) ==
  [score             |-> Clamp(RawScore(Coverage(Len(missing), n_keywords),
                                        Cardinality(DOMAIN section_info))),
   missing_keywords  |-> Take(missing, 100),
   detected_sections |-> section_info]

\* a keyword is found when it occurs anywhere in the lowered text
\* (PhrasesAlwaysMissing tells it from compute_ats_score)
ScoreBySubstring(text, role_keywords) ==
  AtsResult(Sorted({ k \in role_keywords : ~Contains(Lower(text), k) }),
            Cardinality(role_keywords),
            detect_sections(text))

compute_ats_score(text, role_keywords) ==
  AtsResult(Missing(Range(simple_tokenize(text)), role_keywords),
            Cardinality(role_keywords),
            detect_sections(text))

----------------------------------------------------------------------------
(* suggest_quantified_achievements *)

\* [\-•\*]
IsBulletGlyph(c) == c \in {"-", BULLET, "*"}

\* (?:^|\n)\s*: the glyph at g follows nothing but whitespace on its line
\* (BulletsStartLines tells it from AnchoredAt)
AnchoredAfterIndent(text, g) ==
  \E k \in 1..g : (k = 1 \/ text[k - 1] = NL) /\ \A j \in k..(g - 1) : text[j] \in {" ", TAB}

\* (?:^|\n): the glyph at g is the first character or follows a line feed
AnchoredAt(text, g) == g = 1 \/ text[g - 1] = NL

\* \s+(.+) after the glyph at g.  \s+ takes the whole run of whitespace and
\* gives characters back until the character after it is one that `.` matches
\* (any but the line feed); the group then runs to the end of that line.
\* CaptureStart is 0 when there is no such character.
CaptureStart(text, g) ==
  LET from == { s \in (g + 2)..(RunEnd(text, g + 1, IsSpace) + 1) :
                  s <= Len(text) /\ text[s] # NL }
  IN  IF from = {} THEN 0 ELSE Max(from)

\* the pattern matches with its glyph at g
MatchesAt(text, g) ==
  /\ IsBulletGlyph(text[g])
  /\ AnchoredAt(text, g)
  /\ g < Len(text)
  /\ IsSpace(text[g + 1])
  /\ CaptureStart(text, g) # 0

\* re.findall resumes after each match, so a match whose whitespace ran over
\* line feeds up to a glyph has consumed that glyph's anchor: the glyph at g
\* starts a match of its own unless it is where the group of such a match starts.
RECURSIVE FoundAt(_, _)
SwallowedAt(text, g, run) ==
  /\ run # {}
  /\ Min(run) > 1
  /\ FoundAt(text, Min(run) - 1)
  /\ CaptureStart(text, Min(run) - 1) = g

FoundAt(text, g) ==
  /\ MatchesAt(text, g)
  /\ ~SwallowedAt(text, g, { k \in 1..(g - 1) : \A j \in k..(g - 1) : IsSpace(text[j]) })

\* the group of the match with its glyph at g
CaptureAt(text, g) ==
  SubSeq(text, CaptureStart(text, g),
         RunEnd(text, CaptureStart(text, g), LAMBDA c : c # NL))

\* bullet_like = re.findall(r"(?:^|\n)[\-•\*]\s+(.+)", resume_text)
BulletLike(text) ==
  FlatMap(LAMBDA g : IF FoundAt(text, g) THEN << CaptureAt(text, g) >> ELSE <<>>,
          1, Len(text))

\* any(pat in lower for pat in vague_patterns) and len(bullet.split()) >= 4
IsVague(bullet) ==
  \E v \in DOMAIN vague_patterns : Contains(Lower(bullet), vague_patterns[v])

Flagged(bullet) == IsVague(bullet) /\ Len(Words(bullet)) >= 4

SuggestionText ==
  "Rewrite with action + metric. Example: 'Led a team of 8 to deliver X, achieving Y% improvement.'"

Suggestion(bullet) == [original |-> Strip(bullet), suggestion |-> SuggestionText]

\* the loop over bullet_like[:60]
Suggestions(bullets) ==
  FlatMap(LAMBDA i : IF Flagged(bullets[i]) THEN << Suggestion(bullets[i]) >> ELSE <<>>,
          1, Len(bullets))

\* the suggestions without the final [:20]
\* (SuggestionsCapped tells it from suggest_quantified_achievements)
UncappedSuggestions(text) == Suggestions(Take(BulletLike(text), 60))

suggest_quantified_achievements(text) ==
  Take(Suggestions(Take(BulletLike(text), 60)), 20)

----------------------------------------------------------------------------
(* analyze_recruiter_scan *)

\* how many lines of the text are looked at, and how many of them are highlights
ScanLines == 20
HighlightLines == 8

NoHighlights ==
  <<"N","o"," ","i","m","m","e","d","i","a","t","e"," ","h","i","g","h","l","i","g","h","t","s",
    " ","d","e","t","e","c","t","e","d",".">>
ShortHeader ==
  <<"S","h","o","r","t"," ","r","e","s","u","m","e"," ","h","e","a","d","e","r",";"," ","f","o",
    "c","u","s"," ","o","n"," ","p","u","n","c","h","y"," ","s","u","m","m","a","r","y",".">>

\* [l.strip() for l in lines if l.strip()]
StrippedNonBlank(lines) ==
  FlatMap(LAMBDA i : IF Inked(lines[i]) = {} THEN <<>> ELSE << Strip(lines[i]) >>, 1, Len(lines))

\* the first 20 of the lines that are not blank: the slice after the filter
\* (ScansFirstTwentyLines tells it from FirstLines)
FirstNonBlankLines(text) == Take(StrippedNonBlank(SplitLines(text)), ScanLines)

\* first_lines: the lines among resume_text.splitlines()[:20] that are not blank
FirstLines(text) == StrippedNonBlank(Take(SplitLines(text), ScanLines))

RecruiterScan(first_lines) ==
  [highlights |-> IF JoinLines(Take(first_lines, HighlightLines)) = <<>> THEN NoHighlights
                  ELSE JoinLines(Take(first_lines, HighlightLines)),
   ignored    |-> IF Len(first_lines) > HighlightLines
                    THEN JoinLines(SubSeq(first_lines, HighlightLines + 1, Len(first_lines)))
                    ELSE ShortHeader]

analyze_recruiter_scan(text) == RecruiterScan(FirstLines(text))

----------------------------------------------------------------------------
(* analyze_visual_insights *)

\* how many keywords the keyword density covers
DensityKeywords == 25

\* the words a reader reads in a minute (words / 200.0)
WordsPerMinute == 200

\* {k: counter.get(k, 0) for k in ks}: the pairs of the dict in insertion order
KeywordCounts(ks, tokens) ==
  Map(LAMBDA i : <<ks[i], Cardinality({ j \in DOMAIN tokens : tokens[j] = ks[i] })>>, Len(ks))

\* resume_text.count('.') + resume_text.count('!') + resume_text.count('?')
SentenceMarks(text) == Cardinality({ i \in DOMAIN text : text[i] \in {".", "!", "?"} })

\* the hundredths of C cut, not rounded
\* (ReadabilityRounded tells it from NearestToHundred)
CutToHundred(C) == Trunc(C)

\* round(x, 2) of a double x as a number of hundredths: the exact value of x
\* is rounded to the nearest hundredth, a tie to the even one, and the result
\* is the double nearest to that many hundredths.  C is 100 * x, exact.
NearestToHundred(C) ==
  Trunc(C) + (IF (-1) \in C /\ ((\E e \in C : e < -1) \/ Trunc(C) % 2 = 1) THEN 1 ELSE 0)

Round2(X) == NearestToHundred(TimesNat(100, X))

Readability(words, sentences) ==
  [avg_sentence_length     |-> [hundredths |-> Round2(FDiv(words, sentences))],
   word_count              |-> words,
   estimated_read_time_min |-> [hundredths |-> Round2(FDiv(words, WordsPerMinute))]]

VisualInsights(text, role_keywords, tokens) ==
  [keyword_density |-> KeywordCounts(Take(Sorted(role_keywords), DensityKeywords), tokens),
   section_balance |-> detect_sections(text),
   readability     |-> Readability(Len(tokens), Max({1, SentenceMarks(text)}))]

analyze_visual_insights(text, role_keywords) ==
  VisualInsights(text, role_keywords, simple_tokenize(text))

----------------------------------------------------------------------------
(* json.loads and json.dumps *)

(***************************************************************************)
(* The text a backend returns may hold any character.  PrintableAscii is   *)
(* the characters of code 32 to 126 in the order of their codes; a        *)
(* character above 127 is named by its code, as BULLET is.  A Python value *)
(* read from or written to JSON is a record of its type and its value: a   *)
(* str is a sequence of characters, a list a sequence of values, and a     *)
(* dict the sequence of its <<key, value>> pairs in insertion order.       *)
(***************************************************************************)
\* the grave accent (code 96), which a string of the model cannot hold
GRAVE == "U+0060"

PrintableAscii ==
  <<" ", "!", "\"", "#", "$", "%", "&", "'", "(", ")", "*", "+", ",", "-", ".", "/",
    "0", "1", "2", "3", "4", "5", "6", "7", "8", "9", ":", ";", "<", "=", ">", "?",
    "@", "A", "B", "C", "D", "E", "F", "G", "H", "I", "J", "K", "L", "M", "N", "O",
    "P", "Q", "R", "S", "T", "U", "V", "W", "X", "Y", "Z", "[", "\\", "]", "^", "_",
    GRAVE, "a", "b", "c", "d", "e", "f", "g", "h", "i", "j", "k", "l", "m", "n", "o",
    "p", "q", "r", "s", "t", "u", "v", "w", "x", "y", "z", "{", "|", "}", "~">>

HexDigits == <<"0", "1", "2", "3", "4", "5", "6", "7", "8", "9", "A", "B", "C", "D", "E", "F">>

\* the value of a hexadecimal digit of either case, -1 for any other character
HexValue(c) ==
  IF \E v \in 1..16 : HexDigits[v] = c \/ (v > 10 /\ LowerLetters[v - 10] = c)
    THEN (CHOOSE v \in 1..16 : HexDigits[v] = c \/ (v > 10 /\ LowerLetters[v - 10] = c)) - 1
    ELSE -1

\* a Python value
Py(kind, val) == [kind |-> kind, val |-> val]
None == Py("NoneType", <<>>)

\* the character a \uXXXX escape stands for
CharOfEscape(h) ==
  LET code == 16 * HexValue(h[3]) + HexValue(h[4])
  IN  IF HexValue(h[1]) = 0 /\ HexValue(h[2]) = 0 /\ code = 9 THEN TAB
      ELSE IF HexValue(h[1]) = 0 /\ HexValue(h[2]) = 0 /\ code = 10 THEN NL
      ELSE IF HexValue(h[1]) = 0 /\ HexValue(h[2]) = 0 /\ code \in 32..126
        THEN PrintableAscii[code - 31]
      ELSE "U+" \o HexDigits[HexValue(h[1]) + 1] \o HexDigits[HexValue(h[2]) + 1]
                \o HexDigits[HexValue(h[3]) + 1] \o HexDigits[HexValue(h[4]) + 1]

\* the result of a scanning step: the value read and the position after it
NoValue == [ok |-> FALSE, val |-> <<>>, next |-> 0]
Scanned(val, next) == [ok |-> TRUE, val |-> val, next |-> next]

\* json.decoder.WHITESPACE among the characters of the model
IsJsonSpace(c) == c \in {" ", TAB, NL}

\* the first position from i on that holds no whitespace
SkipSpace(s, i) ==
  IF i > Len(s) \/ ~IsJsonSpace(s[i]) THEN i ELSE RunEnd(s, i, IsJsonSpace) + 1

\* how many backslashes stand right before position k, from position lo on
BackslashesBefore(s, lo, k) ==
  (k - 1) - Max({ m \in (lo - 1)..(k - 1) : m = lo - 1 \/ s[m] # "\\" })

\* position k of the string content c starts an escape sequence
EscapeAt(c, k) == c[k] = "\\" /\ BackslashesBefore(c, 1, k) % 2 = 0

\* position k belongs to an escape sequence that starts before it
EscapedAt(c, k) ==
  \/ k > 1 /\ EscapeAt(c, k - 1)
  \/ \E d \in 2..5 : k - d >= 1 /\ EscapeAt(c, k - d) /\ c[k - d + 1] = "u"

SimpleEscapes ==
  <<[esc |-> "\"", char |-> "\""], [esc |-> "\\", char |-> "\\"], [esc |-> "/", char |-> "/"],
    [esc |-> "n", char |-> NL], [esc |-> "t", char |-> TAB],
    [esc |-> "b", char |-> "U+0008"], [esc |-> "f", char |-> "U+000C"],
    [esc |-> "r", char |-> "U+000D"]>>

\* the escape sequence that starts at k is one JSON knows
EscapeKnown(c, k) ==
  /\ k < Len(c)
  /\ \/ \E e \in DOMAIN SimpleEscapes : SimpleEscapes[e].esc = c[k + 1]
     \/ /\ c[k + 1] = "u"
        /\ k + 5 <= Len(c)
        /\ \A d \in 2..5 : HexValue(c[k + d]) >= 0

\* the character the escape sequence at k stands for
Unescaped(c, k) ==
  IF c[k + 1] = "u" THEN CharOfEscape(SubSeq(c, k + 2, k + 5))
  ELSE SimpleEscapes[CHOOSE e \in DOMAIN SimpleEscapes : SimpleEscapes[e].esc = c[k + 1]].char

\* the content of a string literal is well formed: no control character, and
\* every backslash starts a known escape sequence
StringContentOk(c) ==
  \A k \in DOMAIN c :
    /\ c[k] \notin {NL, TAB}
    /\ EscapeAt(c, k) => EscapeKnown(c, k)

Unescape(c) ==
  FlatMap(LAMBDA k : IF EscapedAt(c, k) THEN <<>>
                     ELSE IF EscapeAt(c, k) THEN << Unescaped(c, k) >>
                     ELSE << c[k] >>,
          1, Len(c))

\* json.decoder.py_scanstring: the string literal whose content starts at i
StringBody(c, next) ==
  IF StringContentOk(c) THEN Scanned(Py("str", Unescape(c)), next) ELSE NoValue

ScanString(s, i) ==
  LET quotes == { j \in i..Len(s) : s[j] = "\"" /\ BackslashesBefore(s, i, j) % 2 = 0 }
  IN  IF quotes = {} THEN NoValue
      ELSE StringBody(SubSeq(s, i, Min(quotes) - 1), Min(quotes) + 1)

\* the number a run of decimal digits writes
DigitsValue(ds) ==
  SumOver(LAMBDA k : ((CHOOSE d \in DOMAIN Digits : Digits[d] = ds[k]) - 1) * 10 ^ (Len(ds) - k),
          1, Len(ds))

DigitAtPos(s, i) == i >= 1 /\ i <= Len(s) /\ IsDigit(s[i])

\* json.scanner.NUMBER_RE, (-?(?:0|[1-9]\d*))(\.\d+)?([eE][-+]?\d+)?, matched
\* at i: the last position of the integer part, of the fraction and of the
\* exponent (each the position before it when the part is absent)
IntegerEnd(s, d) == IF s[d] = "0" THEN d ELSE RunEnd(s, d, IsDigit)
FractionEnd(s, e) ==
  IF e < Len(s) /\ s[e + 1] = "." /\ DigitAtPos(s, e + 2) THEN RunEnd(s, e + 2, IsDigit) ELSE e
ExponentEnd(s, e) ==
  LET p == IF e + 1 < Len(s) /\ s[e + 2] \in {"+", "-"} THEN e + 3 ELSE e + 2
  IN  IF e < Len(s) /\ s[e + 1] \in {"e", "E"} /\ DigitAtPos(s, p) THEN RunEnd(s, p, IsDigit) ELSE e

\* an int when the literal has neither fraction nor exponent, else a float,
\* which is kept as the literal that writes it
NumberValue(s, i, d, int_end, last) ==
  IF last = int_end
    THEN Scanned(Py("int", (IF d > i THEN -1 ELSE 1) * DigitsValue(SubSeq(s, d, int_end))), last + 1)
    ELSE Scanned(Py("float", SubSeq(s, i, last)), last + 1)

NumberTail(s, i, d, int_end) ==
  NumberValue(s, i, d, int_end, ExponentEnd(s, FractionEnd(s, int_end)))

JsonConstants ==
  << <<"N", "a", "N">>, <<"I", "n", "f", "i", "n", "i", "t", "y">>,
     <<"-", "I", "n", "f", "i", "n", "i", "t", "y">> >>

ScanNumber(s, i, d) ==
  IF DigitAtPos(s, d) THEN NumberTail(s, i, d, IntegerEnd(s, d))
  ELSE IF \E c \in DOMAIN JsonConstants : OccursAt(JsonConstants[c], s, i)
    THEN LET c == CHOOSE k \in DOMAIN JsonConstants : OccursAt(JsonConstants[k], s, i)
         IN  Scanned(Py("float", JsonConstants[c]), i + Len(JsonConstants[c]))
  ELSE NoValue

\* dict(pairs): a key keeps the place of its first pair and the value of its last
DictOf(pairs) ==
  FlatMap(LAMBDA k : IF \E j \in 1..(k - 1) : pairs[j][1] = pairs[k][1] THEN <<>>
                     ELSE << <<pairs[k][1],
                               pairs[Max({ j \in DOMAIN pairs : pairs[j][1] = pairs[k][1] })][2]>> >>,
          1, Len(pairs))

RECURSIVE ScanValue(_, _)
RECURSIVE ArrayItem(_, _, _)
RECURSIVE ObjectKey(_, _, _)

\* json.decoder.JSONArray: after an element, "]" ends the list and "," brings
\* the next element
ArrayAfterItem(s, items, j) ==
  IF j > Len(s) THEN NoValue
  ELSE IF s[j] = "]" THEN Scanned(Py("list", items), j + 1)
  ELSE IF s[j] = "," THEN ArrayItem(s, items, ScanValue(s, SkipSpace(s, j + 1)))
  ELSE NoValue

ArrayItem(s, items, item) ==
  IF item.ok THEN ArrayAfterItem(s, Append(items, item.val), SkipSpace(s, item.next))
  ELSE NoValue

ArrayFrom(s, j) ==
  IF j <= Len(s) /\ s[j] = "]" THEN Scanned(Py("list", <<>>), j + 1)
  ELSE ArrayItem(s, <<>>, ScanValue(s, j))

\* json.decoder.JSONObject: after a pair, "}" ends the dict and "," brings the
\* next key, which must be a string
ObjectAfterPair(s, pairs, j) ==
  IF j > Len(s) THEN NoValue
  ELSE IF s[j] = "}" THEN Scanned(Py("dict", DictOf(pairs)), j + 1)
  ELSE IF s[j] = "," THEN ObjectKey(s, pairs, SkipSpace(s, j + 1))
  ELSE NoValue

ObjectPair(s, pairs, key, item) ==
  IF item.ok THEN ObjectAfterPair(s, Append(pairs, <<key, item.val>>), SkipSpace(s, item.next))
  ELSE NoValue

ObjectColon(s, pairs, key, j) ==
  IF j <= Len(s) /\ s[j] = ":"
    THEN ObjectPair(s, pairs, key.val.val, ScanValue(s, SkipSpace(s, j + 1)))
    ELSE NoValue

ObjectAfterKey(s, pairs, key) ==
  IF key.ok THEN ObjectColon(s, pairs, key, SkipSpace(s, key.next)) ELSE NoValue

ObjectKey(s, pairs, j) ==
  IF j <= Len(s) /\ s[j] = "\"" THEN ObjectAfterKey(s, pairs, ScanString(s, j + 1))
  ELSE NoValue

ObjectFrom(s, j) ==
  IF j <= Len(s) /\ s[j] = "}" THEN Scanned(Py("dict", <<>>), j + 1)
  ELSE ObjectKey(s, <<>>, j)

JsonWords ==
  <<[word |-> <<"n", "u", "l", "l">>, val |-> None],
    [word |-> <<"t", "r", "u", "e">>, val |-> Py("bool", TRUE)],
    [word |-> <<"f", "a", "l", "s", "e">>, val |-> Py("bool", FALSE)]>>

\* json.scanner.py_make_scanner._scan_once: the value that starts at i
ScanValue(s, i) ==
  IF i > Len(s) THEN NoValue
  ELSE IF s[i] = "\"" THEN ScanString(s, i + 1)
  ELSE IF s[i] = "{" THEN ObjectFrom(s, SkipSpace(s, i + 1))
  ELSE IF s[i] = "[" THEN ArrayFrom(s, SkipSpace(s, i + 1))
  ELSE IF \E w \in DOMAIN JsonWords : OccursAt(JsonWords[w].word, s, i)
    THEN LET w == CHOOSE k \in DOMAIN JsonWords : OccursAt(JsonWords[k].word, s, i)
         IN  Scanned(JsonWords[w].val, i + Len(JsonWords[w].word))
  ELSE ScanNumber(s, i, IF s[i] = "-" THEN i + 1 ELSE i)

\* json.loads: the value the whole text writes; anything after it but
\* whitespace, or no value, raises JSONDecodeError
Decoded(s, item) ==
  IF item.ok /\ SkipSpace(s, item.next) > Len(s)
    THEN [raises |-> FALSE, val |-> item.val]
    ELSE [raises |-> TRUE, val |-> "JSONDecodeError"]

json_loads(s) == Decoded(s, ScanValue(s, SkipSpace(s, 1)))

\* the characters above 127 that the texts of the model hold, with the four
\* hexadecimal digits json.dumps writes for them
NamedChars ==
  <<[char |-> BULLET,   hex |-> <<"2", "0", "2", "2">>],
    [char |-> "U+00E2", hex |-> <<"0", "0", "e", "2">>],
    [char |-> "U+20AC", hex |-> <<"2", "0", "a", "c">>],
    [char |-> "U+201C", hex |-> <<"2", "0", "1", "c">>],
    [char |-> "U+0008", hex |-> <<"0", "0", "0", "8">>],
    [char |-> "U+000C", hex |-> <<"0", "0", "0", "c">>],
    [char |-> "U+000D", hex |-> <<"0", "0", "0", "d">>]>>

\* json.encoder.py_encode_basestring_ascii on one character (ESCAPE_DCT and
\* the \uXXXX form for the rest)
EscapeChar(c) ==
  IF c = "\"" THEN <<"\\", "\"">>
  ELSE IF c = "\\" THEN <<"\\", "\\">>
  ELSE IF c = NL THEN <<"\\", "n">>
  ELSE IF c = TAB THEN <<"\\", "t">>
  ELSE IF c = "U+0008" THEN <<"\\", "b">>
  ELSE IF c = "U+000C" THEN <<"\\", "f">>
  ELSE IF c = "U+000D" THEN <<"\\", "r">>
  ELSE IF \E n \in DOMAIN NamedChars : NamedChars[n].char = c
    THEN <<"\\", "u">> \o NamedChars[CHOOSE n \in DOMAIN NamedChars : NamedChars[n].char = c].hex
  ELSE <<c>>

EncodeString(s) == <<"\"">> \o FlatMap(LAMBDA k : EscapeChar(s[k]), 1, Len(s)) \o <<"\"">>

\* int.__repr__ of a natural number
RECURSIVE NatDigits(_)
NatDigits(n) == IF n < 10 THEN <<Digits[n + 1]>> ELSE Append(NatDigits(n \div 10), Digits[(n % 10) + 1])
IntRepr(n) == IF n < 0 THEN <<"-">> \o NatDigits(-n) ELSE NatDigits(n)

\* the texts of the items of a list or a dict with ", " between them
JoinItems(items) ==
  FlatMap(LAMBDA k : (IF k > 1 THEN <<",", " ">> ELSE <<>>) \o items[k], 1, Len(items))

\* json.dumps with its defaults (ensure_ascii, separators ", " and ": ") on
\* the values the program hands it: str, int, bool, None, and lists and dicts
\* (with str keys) of them
RECURSIVE json_dumps(_)
json_dumps(v) ==
  IF v.kind = "str" THEN EncodeString(v.val)
  ELSE IF v.kind = "int" THEN IntRepr(v.val)
  ELSE IF v.kind = "bool" THEN (IF v.val THEN <<"t", "r", "u", "e">> ELSE <<"f", "a", "l", "s", "e">>)
  ELSE IF v.kind = "NoneType" THEN <<"n", "u", "l", "l">>
  ELSE IF v.kind = "list"
    THEN <<"[">> \o JoinItems(Map(LAMBDA k : json_dumps(v.val[k]), Len(v.val))) \o <<"]">>
  ELSE <<"{">> \o JoinItems(Map(LAMBDA k : EncodeString(v.val[k][1]) \o <<":", " ">>
                                             \o json_dumps(v.val[k][2]), Len(v.val)))
            \o <<"}">>

----------------------------------------------------------------------------
(* LLMClient (src/utils/llm.py) *)

(***************************************************************************)
(* What the backend of a request does is an input: the call raises an      *)
(* exception with a message, or it returns a text.  The client reads the   *)
(* text with json.loads.                                                   *)
(***************************************************************************)
Raises(message) == [raises |-> TRUE, text |-> message]
Returns(text)   == [raises |-> FALSE, text |-> text]

\* a str as the key of a dict or as a value
PyStr(s) == Py("str", s)
PyInt(n) == Py("int", n)
PyDict(pairs) == Py("dict", pairs)

KeySections  == <<"s","e","c","t","i","o","n","s">>
KeyScores    == <<"s","c","o","r","e","s">>
KeyImproved  == <<"i","m","p","r","o","v","e","d","_","r","e","s","u","m","e">>
KeyError     == <<"e","r","r","o","r">>
KeyGeneral   == <<"g","e","n","e","r","a","l">>
KeySuggestions == <<"s","u","g","g","e","s","t","i","o","n","s">>
KeySummary    == <<"s","u","m","m","a","r","y">>
KeyExperience == <<"e","x","p","e","r","i","e","n","c","e">>
KeyEducation  == <<"e","d","u","c","a","t","i","o","n">>
KeySkills     == <<"s","k","i","l","l","s">>

\* the dict `fallback` of _heuristic
HeuristicSections ==
  PyDict(<< <<KeySummary, PyStr(<<"C","l","e","a","r",","," ","c","o","n","c","i","s","e",","," ","a","n","d",
                   " ","t","a","i","l","o","r","e","d"," ","s","u","m","m","a","r","y"," ","r",
                   "e","c","o","m","m","e","n","d","e","d",".">>)>>,
          <<KeyExperience, PyStr(<<"U","s","e"," ","a","c","t","i","o","n"," ","v","e","r","b","s",";"," ","q",
                   "u","a","n","t","i","f","y"," ","w","i","t","h"," ","m","e","t","r","i","c",
                   "s"," ","w","h","e","r","e"," ","p","o","s","s","i","b","l","e",".">>)>>,
          <<KeyEducation, PyStr(<<"E","n","s","u","r","e"," ","r","e","l","e","v","a","n","t"," ","c","o","u",
                   "r","s","e","w","o","r","k"," ","a","n","d"," ","h","o","n","o","r","s"," ",
                   "a","r","e"," ","h","i","g","h","l","i","g","h","t","e","d",".">>)>>,
          <<KeySkills, PyStr(<<"G","r","o","u","p"," ","b","y"," ","c","a","t","e","g","o","r","y"," ","a",
                   "n","d"," ","a","l","i","g","n"," ","w","i","t","h"," ","t","a","r","g","e",
                   "t"," ","r","o","l","e"," ","k","e","y","w","o","r","d","s",".">>)>> >>)

HeuristicScores ==
  PyDict(<< <<KeySummary, PyInt(70)>>, <<KeyExperience, PyInt(75)>>,
          <<KeyEducation, PyInt(80)>>, <<KeySkills, PyInt(65)>> >>)

HeuristicImproved ==
  PyStr(<<"(","M","o","d","e","l"," ","o","u","t","p","u","t"," ","p","l","a","c","e","h","o","l",
      "d","e","r"," ","U+00E2","U+20AC","U+201C"," ","a","d","d"," ","A","P","I"," ","k","e",
      "y"," ","f","o","r"," ","r","i","c","h","e","r"," ","s","u","g","g","e","s","t","i","o",
      "n","s",")">>)

HeuristicFallback ==
  PyDict(<< <<KeySections, HeuristicSections>>, <<KeyScores, HeuristicScores>>,
          <<KeyImproved, HeuristicImproved>> >>)

\* the except branch of both chat methods: json.dumps({"error": str(e)})
ErrorText(message) == json_dumps(PyDict(<< <<KeyError, PyStr(message)>> >>))

\* resp.choices[0].message.content.strip(), or the error text when the call raised
_openai_chat(outcome) ==
  IF outcome.raises THEN ErrorText(outcome.text) ELSE Strip(outcome.text)

\* "".join([b.text for b in msg.content]), or the error text when the call raised
_anthropic_chat(outcome) ==
  IF outcome.raises THEN ErrorText(outcome.text) ELSE outcome.text

_heuristic == json_dumps(HeuristicFallback)

\* the text `raw` of generate_structured_feedback
RawResponse(prov, outcome) ==
  IF prov = "openai" THEN _openai_chat(outcome)
  ELSE IF prov = "anthropic" THEN _anthropic_chat(outcome)
  ELSE _heuristic

\* the limit of the slice raw[:2000]
RawLimit == 2000

\* a client that answers a text that is no JSON with the result of _heuristic
FeedbackByHeuristic(raw, decoded) ==
  IF decoded.raises
    THEN [via |-> "except", value |-> HeuristicFallback]
    ELSE [via |-> "loads", value |-> decoded.val]

\* try: return json.loads(raw); except Exception: the text itself, cut to 2000
\* characters, as the "general" section
Feedback(raw, decoded) ==
  IF decoded.raises
    THEN [via |-> "except",
          value |-> PyDict(<< <<KeySections, PyDict(<< <<KeyGeneral, PyStr(Take(raw, RawLimit))>> >>)>> >>)]
    ELSE [via |-> "loads", value |-> decoded.val]

FeedbackOfRaw(raw) == Feedback(raw, json_loads(raw))

FeedbackOutcome(prov, outcome) == FeedbackOfRaw(RawResponse(prov, outcome))

generate_structured_feedback(prov, outcome) == FeedbackOutcome(prov, outcome).value

generate_quantified_rewrites(prov, outcome) == generate_structured_feedback(prov, outcome)

----------------------------------------------------------------------------
(* Inputs: the texts, role labels and keyword sets the functions are called with *)

LineName ==
  << "J", "o", "h", "n", " ", "D", "o", "e" >>

LineSummary ==
  << "S", "u", "m", "m", "a", "r", "y" >>

LineEngineer ==
  << "E", "x", "p", "e", "r", "i", "e", "n", "c", "e", "d", " ", "e", "n", "g", "i", "n", "e", "e",
     "r", "." >>

LineExperience ==
  << "E", "x", "p", "e", "r", "i", "e", "n", "c", "e" >>

LineResponsible ==
  << "-", " ", "r", "e", "s", "p", "o", "n", "s", "i", "b", "l", "e", " ", "f", "o", "r", " ", "m",
     "a", "n", "a", "g", "i", "n", "g", " ", "a", " ", "t", "e", "a", "m", " ", "o", "f", " ", "f",
     "i", "v", "e", " ", "p", "e", "o", "p", "l", "e" >>

LineProfile ==
  << "P", "r", "o", "f", "i", "l", "e" >>

LineWorkExperience ==
  << "W", "o", "r", "k", " ", "E", "x", "p", "e", "r", "i", "e", "n", "c", "e", ":" >>

LineEducation ==
  << "E", "D", "U", "C", "A", "T", "I", "O", "N" >>

LineSkills ==
  << "T", "e", "c", "h", "n", "i", "c", "a", "l", " ", "S", "k", "i", "l", "l", "s" >>

LineProjects ==
  << "P", "e", "r", "s", "o", "n", "a", "l", " ", "p", "r", "o", "j", "e", "c", "t", "s" >>

LineLicenses ==
  << "L", "i", "c", "e", "n", "s", "e", "s", " ", "&", " ", "c", "e", "r", "t", "i", "f", "i", "c",
     "a", "t", "i", "o", "n", "s" >>

LinePublications ==
  << "P", "u", "b", "l", "i", "c", "a", "t", "i", "o", "n", "s" >>

LineStack ==
  << "P", "y", "t", "h", "o", "n", ",", " ", "J", "a", "v", "a", " ", "a", "n", "d", " ", "S", "Q",
     "L", ",", " ", "D", "o", "c", "k", "e", "r", " ", "+", " ", "G", "i", "t", ",", " ", "C", "I",
     "/", "C", "D", "." >>

LineDegree ==
  << "B", "S", "c", " ", "d", "e", "g", "r", "e", "e", ",", " ", "U", "n", "i", "v", "e", "r", "s",
     "i", "t", "y", " ", "o", "f", " ", "X", ",", " ", "G", "P", "A", " ", "3", ".", "9" >>

LineBuilt ==
  << "B", "u", "i", "l", "t", " ", "a", "n", "d", " ", "d", "e", "s", "i", "g", "n", "e", "d", " ",
     "a", " ", "R", "E", "S", "T", " ", "A", "P", "I", " ", "p", "r", "o", "j", "e", "c", "t", "!" >>

LineManaged ==
  << "M", "a", "n", "a", "g", "e", "d", " ", "a", "n", "d", " ", "d", "e", "v", "e", "l", "o", "p",
     "e", "d", " ", "t", "e", "a", "m", "s", ".", " ", "L", "e", "a", "d", " ", "e", "n", "g", "i",
     "n", "e", "e", "r", "?" >>

LineCertified ==
  << "C", "e", "r", "t", "i", "f", "i", "e", "d", ":", " ", "j", "o", "u", "r", "n", "a", "l", " ",
     "a", "n", "d", " ", "c", "o", "n", "f", "e", "r", "e", "n", "c", "e" >>

LineSkillset ==
  << "m", "y", "_", "s", "k", "i", "l", "l", "s", " ", "s", "k", "i", "l", "l", "s", "e", "t" >>

LineAssisted ==
  << "-", " ", "a", "s", "s", "i", "s", "t", "e", "d", " ", "a", " ", "b", " ", "c" >>

LineAssistedShort ==
  << "*", " ", "A", "s", "s", "i", "s", "t", "e", "d", " ", "t", "e", "a", "m" >>

LineWorkedOn ==
  << BULLET, " ", "W", "o", "r", "k", "e", "d", " ", "O", "n", " ", "t", "h", "e", " ", " ", "P",
     "y", "t", "h", "o", "n", " ", "A", "P", "I", " ", " " >>

LinePlainBullet ==
  << "-", " ", "b", "u", "i", "l", "t", " ", "t", "h", "e", " ", "S", "Q", "L", " ", "d", "a", "t",
     "a", "b", "a", "s", "e" >>

LineUnassisted ==
  << "-", TAB, "u", "n", "a", "s", "s", "i", "s", "t", "e", "d", " ", "d", "o", "c", "k", "e", "r",
     " ", "a", "n", "d", " ", "g", "i", "t", " ", "r", "o", "l", "l", "o", "u", "t" >>

LineIndented ==
  << " ", " ", "-", " ", "h", "e", "l", "p", "e", "d", " ", "w", "i", "t", "h", " ", "t", "h", "e",
     " ", "m", "o", "n", "t", "h", "l", "y", " ", "r", "e", "p", "o", "r", "t", "i", "n", "g" >>

LineDash ==
  << "-" >>

LineBlank ==
  << " ", " ", TAB >>

LineWord ==
  << "n", "o", "d", "e", " " >>

LineDocker ==
  << "D", "o", "c", "k", "e", "r" >>

RoleSoftwareEngineer ==
  << "S", "o", "f", "t", "w", "a", "r", "e", " ", "E", "n", "g", "i", "n", "e", "e", "r" >>

RoleSeniorDataScientist ==
  << "S", "e", "n", "i", "o", "r", " ", "D", "a", "t", "a", " ", "S", "c", "i", "e", "n", "t", "i",
     "s", "t" >>

RoleAnalystAndScientist ==
  << "D", "a", "t", "a", " ", "A", "n", "a", "l", "y", "s", "t", " ", "a", "n", "d", " ", "d", "a",
     "t", "a", " ", "s", "c", "i", "e", "n", "t", "i", "s", "t" >>

RoleBackendSoftware ==
  << "B", "a", "c", "k", "e", "n", "d", " ", "D", "e", "v", "e", "l", "o", "p", "e", "r", " ", "/",
     " ", "S", "o", "f", "t", "w", "a", "r", "e", " ", "E", "n", "g", "i", "n", "e", "e", "r" >>

RoleChef ==
  << "C", "h", "e", "f" >>

RoleQA ==
  << "Q", "A", " ", "e", "n", "g", "i", "n", "e", "e", "r" >>

RoleHousekeeper ==
  << "H", "O", "U", "S", "E", "K", "E", "E", "P", "E", "R" >>

RoleProduct ==
  << "P", "r", "o", "d", "u", "c", "t", " ", "m", "a", "n", "a", "g", "e", "r", ",", " ", "g", "r",
     "o", "w", "t", "h" >>

DescShort ==
  << "Q", "A" >>

DescPython ==
  << "W", "e", " ", "n", "e", "e", "d", " ", "P", "y", "t", "h", "o", "n", " ", "a", "n", "d", " ",
     "S", "Q", "L", ":", " ", "p", "y", "t", "h", "o", "n", ",", " ", "s", "q", "l", " ", "a", "n",
     "d", " ", "A", "W", "S", ".", " ", "G", "o", " ", "t", "o", " ", "m", "a", "r", "k", "e", "t",
     "!" >>

DescDigits ==
  << "2", "4", "/", "7", " ", "o", "n", " ", "5", " ", "k", "8" >>


\* n copies of a line, each ended by a line feed
Repeated(line, n) == FlatMap(LAMBDA i : line \o <<NL>>, 1, n)

\* n copies of a word on one line
Wide(word, n) == FlatMap(LAMBDA i : word, 1, n)

\* the example resume of the specification
ExampleResume ==
  JoinLines(<<LineName, LineSummary, LineEngineer, LineExperience, LineResponsible>>)

\* a resume with a heading for each of the seven sections
FullResume ==
  JoinLines(<<LineName, LineProfile, LineEngineer, LineWorkExperience, LineManaged,
              LineResponsible, LineEducation, LineDegree, LineSkills, LineStack,
              LineProjects, LineBuilt, LineWorkedOn, LineLicenses, LineCertified,
              LinePublications, LineCertified>>)

\* words of each pass-2 list and no heading
KeywordResume ==
  JoinLines(<<LineSummary \o <<" ">> \o LineManaged \o <<" ">> \o LineDegree, LineBlank,
              LineStack \o <<" ">> \o LineBuilt \o <<" ">> \o LineCertified>>)

BulletResume ==
  JoinLines(<<LineExperience, LineAssisted, LineAssistedShort, LineWorkedOn, LinePlainBullet,
              LineUnassisted, LineIndented, LineDash, LineBlank, LineResponsible, <<>>>>)

\* lines of 119, 124 and 184 characters that name a heading, and a line of 179
WideWords == {22, 23, 35}

FixedTexts ==
  { <<>>,
    JoinLines(<<LineBlank, <<>>, LineBlank>>),
    ExampleResume, FullResume, KeywordResume, BulletResume,
    LineDocker, LineStack, LineSkillset,
    JoinLines(<<LineName, LineEngineer>>),
    JoinLines(<<LineName, LineEngineer, LineDocker>>),
    JoinLines(<<LineSkills, LineStack>>),
    JoinLines(<<LineSkills, LineStack, LineEducation>>),
    JoinLines(<<LineSkillset, LineDegree, LineBuilt>>),
    Wide(LineWord, 36) }
  \cup { LineEducation \o <<" ">> \o Wide(LineWord, n) : n \in WideWords }

\* the most copies of a bullet line in a text
MaxRepeat == 21

RepeatedTexts ==
  { JoinLines(<<LineExperience, Repeated(line, n)>>) :
      line \in {LineAssisted, LinePlainBullet}, n \in 1..MaxRepeat }

Texts == FixedTexts \cup RepeatedTexts

Roles ==
  { <<>>, RoleSoftwareEngineer, RoleSeniorDataScientist, RoleAnalystAndScientist,
    RoleBackendSoftware, RoleChef, RoleQA, RoleHousekeeper, RoleProduct }

JobDescs == { <<>>, DescShort, DescPython, DescDigits }

KeywordsFive  == { <<"p","y","t","h","o","n">>, <<"j","a","v","a">>, <<"s","q","l">>, <<"d","o","c","k","e","r">>, <<"r","e","a","c","t">> }
KeywordsMixed ==
  { <<"c","o","m","m","u","n","i","c","a","t","i","o","n">>, <<"p","y","t","h","o","n">>, <<"r","e","g","r","e","s","s","i","o","n">>, <<"z","e","b","r","a">>, <<"a","/","b"," ","t","e","s","t","i","n","g">>, <<"t","i","m","e"," ","m","a","n","a","g","e","m","e","n","t">>, <<"r","o","a","d","m","a","p">>, <<"k","p","i">> }

\* the decimal digits of a natural number
RECURSIVE Decimal(_)
Decimal(n) == IF n < 10 THEN <<Digits[n + 1]>> ELSE Decimal(n \div 10) \o <<Digits[(n % 10) + 1]>>

\* how many keywords the large keyword set has
ManyKeywords == 101

KeywordsMany == { <<"k">> \o Decimal(i) : i \in 1..ManyKeywords }

KeywordSets ==
  { {}, KeywordsFive, KeywordsMixed, KeywordsMany,
    ROLE_PRESETS[3].vocab, ROLE_PRESETS[8].vocab, ROLE_PRESETS[14].vocab }

\* compute_ats_score is called with every text and the small keyword sets, and
\* with the large keyword set on the fixed texts
AtsInputs ==
  (Texts \X (KeywordSets \ {KeywordsMany})) \cup (FixedTexts \X {KeywordsMany})

\* the texts a backend returns
\* a JSON object with the sections, scores and improved text asked for
ReplyFeedback ==
  <<"{","\"","s","e","c","t","i","o","n","s","\"",":"," ","{","\"","s","u","m","m","a","r","y",
    "\"",":"," ","\"","G","o","o","d","\"","}",","," ","\"","s","c","o","r","e","s","\"",":"," ",
    "{","\"","s","u","m","m","a","r","y","\"",":"," ","8","0","}",","," ","\"","i","m","p","r",
    "o","v","e","d","_","r","e","s","u","m","e","\"",":"," ","\"","J","o","h","n"," ","D","o","e",
    "\"","}">>
\* a JSON object with the array of rewrites asked for
ReplySuggestions ==
  <<"{","\"","s","u","g","g","e","s","t","i","o","n","s","\"",":"," ","[","{","\"","o","r","i",
    "g","i","n","a","l","\"",":"," ","\"","w","o","r","k","e","d"," ","o","n"," ","r","e","p","o",
    "r","t","s","\"",","," ","\"","s","u","g","g","e","s","t","i","o","n","\"",":"," ","\"","C",
    "u","t"," ","r","e","p","o","r","t"," ","t","i","m","e"," ","b","y"," ","3","0","%","\"","}",
    "]","}">>
\* a JSON object between line feeds
ReplyPadded ==
  <<NL,"{","\"","s","u","g","g","e","s","t","i","o","n","s","\"",":"," ","[","]","}",NL>>
\* valid JSON that is an array
ReplyArray ==
  <<"[","\"","C","u","t"," ","r","e","p","o","r","t"," ","t","i","m","e"," ","b","y"," ","3","0",
    "%","\"",","," ","\"","L","e","d"," ","a"," ","t","e","a","m"," ","o","f"," ","5","\"","]">>
\* valid JSON that is a string
ReplyString ==
  <<"\"","L","o","o","k","s"," ","g","o","o","d"," ","\\","u","2","0","2","2"," ","n","o"," ","c",
    "h","a","n","g","e","s","\"">>
\* valid JSON that is a number
ReplyNumber ==
  <<"4","2">>
\* valid JSON that is null
ReplyNull ==
  <<"n","u","l","l">>
\* no JSON at all, between line feeds
ReplyProse ==
  <<NL,"S","o","r","r","y",","," ","I"," ","c","a","n","n","o","t"," ","h","e","l","p"," ","w",
    "i","t","h"," ","t","h","a","t",".",NL>>
\* a JSON object inside a Markdown fence
ReplyFenced ==
  <<GRAVE,GRAVE,GRAVE,"j","s","o","n",NL,"{","\"","s","u","g","g","e","s","t","i","o","n","s",
    "\"",":"," ","[","]","}",NL,GRAVE,GRAVE,GRAVE>>
\* a JSON object cut short
ReplyCut ==
  <<"{","\"","s","e","c","t","i","o","n","s","\"",":"," ","{","\"","s","u","m","m","a","r","y",
    "\"",":"," ","\"","G","o">>
\* the empty text
ReplyEmpty ==
  <<>>

\* the messages of the exceptions a backend call raises
MessageConnection ==
  <<"C","o","n","n","e","c","t","i","o","n"," ","e","r","r","o","r",".">>
MessageNoModule ==
  <<"N","o"," ","m","o","d","u","l","e"," ","n","a","m","e","d"," ","'","o","p","e","n","a","i",
    "'">>
MessageAuth ==
  <<"E","r","r","o","r"," ","c","o","d","e",":"," ","4","0","1"," ","-"," ","{","\"","e","r","r",
    "o","r","\"",":"," ","\"","i","n","v","a","l","i","d"," ","x","-","a","p","i","-","k","e","y",
    "\"","}">>

\* a reply that is no JSON and longer than the 2000 characters kept of it:
\* ReplyWords times the three characters "no "
ReplyWords == 700
ReplyLong == Wide(<<"n", "o", " ">>, ReplyWords)

Providers == {"openai", "anthropic", "heuristic"}

BackendOutcomes ==
  { Returns(text) : text \in {ReplyFeedback, ReplySuggestions, ReplyPadded,
                              ReplyArray, ReplyString, ReplyNumber,
                              ReplyNull, ReplyProse, ReplyFenced,
                              ReplyCut, ReplyEmpty,
                              ReplyLong} }
    \cup { Raises(message) : message \in {MessageConnection, MessageNoModule, MessageAuth} }

\* the heuristic provider calls no backend
NoCall == Returns(<<>>)

OutcomesOf(prov) == IF prov = "heuristic" THEN {NoCall} ELSE BackendOutcomes

----------------------------------------------------------------------------
(* The presentation flow (src/app.py) *)

\* the least length of a resume, stripped, that is reviewed
MinResume == 30

\* the test without the strip
\* (ReviewNeedsThirty tells it from TooShort)
TooShortUnstripped(text) == text = <<>> \/ Len(text) < MinResume

\* not resume_text or len(resume_text.strip()) < 30  (None and "" are both <<>>)
TooShort(text) == text = <<>> \/ Len(Strip(text)) < MinResume

InvalidResume ==
  <<"P","l","e","a","s","e"," ","p","r","o","v","i","d","e"," ","a"," ","v","a","l","i","d"," ","r","e","s","u","m","e"," ","(","u","p","l","o","a","d"," ","o","r"," ","p","a","s","t","e"," ","t","e","x","t",")",".">>

\* job_role.strip() if job_role else None
Stripped(field) == Strip(field)

\* the calls of _run, in the order of its statements
RunCalls ==
  <<"role_keywords_for", "compute_ats_score", "analyze_recruiter_scan",
    "analyze_visual_insights", "generate_structured_feedback",
    "suggest_quantified_achievements">>

\* the dict _run returns
RunResults(text, role_keywords, feedback) ==
  [ats        |-> compute_ats_score(text, role_keywords),
   recruiter  |-> analyze_recruiter_scan(text),
   visuals    |-> analyze_visual_insights(text, role_keywords),
   feedback   |-> feedback,
   quantified |-> suggest_quantified_achievements(text)]

\* d.get(key, default) on the pairs of a dict
DictGet(pairs, key, default) ==
  IF \E k \in DOMAIN pairs : pairs[k][1] = key
    THEN pairs[CHOOSE k \in DOMAIN pairs : pairs[k][1] = key][2]
    ELSE default

EmptyList == Py("list", <<>>)

\* improved_items = q_resp.get("suggestions", []): only a dict has a get
Lookup(q_resp) ==
  IF q_resp.kind = "dict"
    THEN [exc |-> "none", q_resp |-> q_resp,
          improved_items |-> DictGet(q_resp.val, KeySuggestions, EmptyList)]
    ELSE [exc |-> "AttributeError", q_resp |-> q_resp, improved_items |-> EmptyList]

----------------------------------------------------------------------------
(* The catalogs as objects.  role_keywords_for returns the set of a preset *)
(* itself, not a copy: what a later call does to the set it is handed, it  *)
(* does to the catalog.  The variable aliased tells which preset the       *)
(* keyword set of the request is (0: a set of the caller's own).  The      *)
(* functions read the catalogs by their names; CatalogsUnchanged is what   *)
(* makes the names and the variable the same.                              *)

Catalogs ==
  [ROLE_PRESETS       |-> ROLE_PRESETS,
   DOMAIN_PRESETS     |-> DOMAIN_PRESETS,
   SECTION_ALIASES    |-> SECTION_ALIASES,
   CANONICAL_SECTIONS |-> CANONICAL_SECTIONS]

\* the catalogs when the set of preset i has become vocab
WithPreset(cat, i, vocab) ==
  IF i = 0 THEN cat ELSE [cat EXCEPT !.ROLE_PRESETS[i].vocab = vocab]

\* a scoring that takes the tokens of the text out of the set it is handed
\* (role_keywords -= token_set) to find the missing keywords
\* (CatalogsUnchanged tells it from ScoreLeaves)
ScoreDrains(role_keywords, token_set) == role_keywords \ token_set

\* what compute_ats_score leaves of role_keywords: it iterates over the set
\* and takes its length
ScoreLeaves(role_keywords, token_set) == role_keywords

\* what analyze_visual_insights leaves of role_keywords: sorted(list(...))
\* works on a copy
InsightsLeave(role_keywords) == role_keywords

\* what categorize_keywords leaves of keywords: sorted(keywords) is a new list
BucketsLeave(kws) == kws

\* what _run leaves of role_keywords after both calls and sorted(role_keywords)
RunLeaves(role_keywords, token_set) ==
  InsightsLeave(ScoreLeaves(role_keywords, token_set))

----------------------------------------------------------------------------
(* Inputs of the presentation flow *)

\* texts at the threshold: MinResume characters, one less, and one less
\* between whitespace that brings the length to MinResume and more
AtThreshold    == Wide(<<"a">>, MinResume)
BelowThreshold == Wide(<<"a">>, MinResume - 1)
PaddedBelow    == <<" ">> \o Wide(<<"a">>, MinResume - 1) \o <<" ", NL>>

ReviewTexts ==
  { <<>>, JoinLines(<<LineBlank, <<>>, LineBlank>>), Wide(<<" ">>, MinResume + 1),
    AtThreshold, BelowThreshold, PaddedBelow, ExampleResume }

ReviewRoles ==
  { <<>>, <<" ">> \o RoleSeniorDataScientist \o <<" ">>, RoleChef }

ReviewDescs == { <<>>, DescPython \o <<NL>> }

ReviewOutcomes(prov) ==
  IF prov = "heuristic" THEN {NoCall}
  ELSE IF prov = "openai" THEN {Returns(ReplyFeedback), Raises(MessageConnection)}
  ELSE {Returns(ReplyProse), Returns(ReplyArray)}

\* texts of bullets for suggest_quantified_achievements: a vague bullet
\* indented and not, alone, under a heading and after a line that is a glyph
\* only; and vague bullets after MaxBullets - 1 and after MaxBullets plain ones
LineUnindented == SubSeq(LineIndented, 3, Len(LineIndented))

MaxBullets == 60

BulletTexts ==
  { LineIndented, LineUnindented,
    JoinLines(<<LineExperience, LineIndented, <<TAB>> \o LineResponsible>>),
    JoinLines(<<LineExperience, LineUnindented, LineResponsible>>),
    JoinLines(<<LineDash, LineIndented>>),
    Repeated(LinePlainBullet, MaxBullets - 1) \o Repeated(LineAssisted, 2),
    Repeated(LinePlainBullet, MaxBullets) \o Repeated(LineAssisted, 2) }

\* texts for the counts of role_keywords_for: n distinct words of three
\* letters once each, then the last two of them once more, then a word of
\* two letters five times
WordNo(i) ==
  << "k", LowerLetters[((i - 1) \div 26) + 1], LowerLetters[((i - 1) % 26) + 1] >>

ManyWords(n) ==
  FlatMap(LAMBDA i : WordNo(i) \o <<" ">>, 1, n)
    \o WordNo(n) \o <<" ">> \o WordNo(n - 1) \o <<" ">> \o Wide(<<"q", "a", " ">>, 5)

\* the most distinct words of three letters in a text
MaxDistinct == 62

FrequencyTexts == { ManyWords(n) : n \in {39, 41, 59, MaxDistinct} }

RoleRequests ==
  (Roles \X JobDescs \X FixedTexts)
    \cup ({RoleChef, RoleSoftwareEngineer}
            \X ({<<>>} \cup FrequencyTexts) \X ({ExampleResume} \cup FrequencyTexts))

\* a text that has each keyword of a preset verbatim, one to a line, alone
\* and after a resume with every section; scored against that preset
Verbatim(i) == JoinLines(Sorted(ROLE_PRESETS[i].vocab))

VerbatimInputs ==
  { << <<head \o Verbatim(i), ROLE_PRESETS[i].vocab>>, i >> :
      head \in {<<>>, FullResume \o <<NL>>}, i \in DOMAIN ROLE_PRESETS }

\* the presets whose set a caller passes on as it got it from role_keywords_for
HeldPresets == {3, 8, 14}

\* the keyword sets of a request, each with the preset it is (0: none)
HeldSets == { <<ROLE_PRESETS[i].vocab, i>> : i \in HeldPresets }
OwnSets(sets) == { <<kws, 0>> : kws \in sets }

\* the texts a held set is scored against
HeldTexts == {<<>>, LineDocker, FullResume, KeywordResume}

\* texts of numbered lines for analyze_recruiter_scan: n lines, n lines with
\* a blank line after each, and n lines after n blank lines
MaxScanLines == 25

NumberedLine(i) == <<" ", "l">> \o Decimal(i) \o <<" ">>
Numbered(n)     == JoinLines(Map(LAMBDA i : NumberedLine(i), n))
DoubleSpaced(n) == JoinLines(FlatMap(LAMBDA i : <<NumberedLine(i), LineBlank>>, 1, n))
BlanksFirst(n)  == JoinLines(Map(LAMBDA i : <<>>, n) \o Map(LAMBDA i : NumberedLine(i), n))

ScanTexts ==
  UNION { {Numbered(n), DoubleSpaced(n), BlanksFirst(n)} : n \in 1..MaxScanLines }

\* texts of w words and s sentence marks for analyze_visual_insights
MaxWords == 12
MaxMarks == 7

Prose(w, s) ==
  Wide(<<"w", "o", "r", "d", " ">>, w) \o Map(LAMBDA i : <<".", "!", "?">>[(i % 3) + 1], s)

ProseTexts == { Prose(w, s) : w \in 0..MaxWords, s \in 0..MaxMarks }

\* analyze_visual_insights is called with the prose and no keywords, and with
\* the fixed texts and the keyword sets, those held from a preset included
InsightInputs ==
  (ProseTexts \X {<<{}, 0>>})
    \cup (FixedTexts \X (OwnSets({KeywordsFive, KeywordsMany}) \cup HeldSets))

----------------------------------------------------------------------------
(* The requests.  The functions keep no state between calls: a request     *)
(* runs one of them on its arguments, and the caller takes the result      *)
(* before the next request.                                                *)

Init ==
  /\ op = "idle"
  /\ resume_text = <<>>
  /\ job_role = <<>>
  /\ job_desc = <<>>
  /\ keywords = {}
  /\ ret = <<>>
  /\ branch = "none"
  /\ provider = "none"
  /\ backend = NoCall
  /\ exc = "none"
  /\ calls = <<>>
  /\ aliased = 0
  /\ catalogs = Catalogs

RoleKeywordsFor ==
  /\ op = "idle"
  /\ \E req \in RoleRequests :
       /\ op' = "role_keywords_for"
       /\ job_role' = req[1]
       /\ job_desc' = req[2]
       /\ resume_text' = req[3]
       /\ keywords' = {}
       /\ ret' = RoleKeywordsOutcome(req[1], req[2], req[3]).value
       /\ branch' = RoleKeywordsOutcome(req[1], req[2], req[3]).via
       /\ aliased' = FirstPresetMatch(ROLE_PRESETS, Lower(req[1]))
       /\ UNCHANGED <<provider, backend, exc, calls, catalogs>>

CategorizeKeywords ==
  /\ op = "idle"
  /\ \E role \in Roles, kws \in OwnSets(KeywordSets) \cup HeldSets :
       /\ op' = "categorize_keywords"
       /\ job_role' = role
       /\ keywords' = kws[1]
       /\ aliased' = kws[2]
       /\ ret' = categorize_keywords(role, kws[1])
       /\ branch' = "return"
       /\ catalogs' = WithPreset(catalogs, kws[2], BucketsLeave(kws[1]))
       /\ UNCHANGED <<resume_text, job_desc>>
       /\ UNCHANGED <<provider, backend, exc, calls>>

DetectSections ==
  /\ op = "idle"
  /\ \E text \in Texts :
       /\ op' = "detect_sections"
       /\ resume_text' = text
       /\ ret' = SectionsOutcome(text).value
       /\ branch' = SectionsOutcome(text).via
       /\ UNCHANGED <<job_role, job_desc, keywords>>
       /\ UNCHANGED <<provider, backend, exc, calls, aliased, catalogs>>

ComputeAtsScore ==
  /\ op = "idle"
  /\ \E input \in (AtsInputs \X {0}) \cup VerbatimInputs
                   \cup { <<<<text, kws[1]>>, kws[2]>> : text \in HeldTexts, kws \in HeldSets } :
       /\ op' = "compute_ats_score"
       /\ resume_text' = input[1][1]
       /\ keywords' = input[1][2]
       /\ aliased' = input[2]
       /\ ret' = compute_ats_score(input[1][1], input[1][2])
       /\ branch' = "return"
       /\ catalogs' = WithPreset(catalogs, input[2],
                                 ScoreLeaves(input[1][2], Range(simple_tokenize(input[1][1]))))
       /\ UNCHANGED <<job_role, job_desc>>
       /\ UNCHANGED <<provider, backend, exc, calls>>

SuggestQuantifiedAchievements ==
  /\ op = "idle"
  /\ \E text \in Texts \cup BulletTexts :
       /\ op' = "suggest_quantified_achievements"
       /\ resume_text' = text
       /\ ret' = suggest_quantified_achievements(text)
       /\ branch' = "return"
       /\ UNCHANGED <<job_role, job_desc, keywords>>
       /\ UNCHANGED <<provider, backend, exc, calls, aliased, catalogs>>

AnalyzeRecruiterScan ==
  /\ op = "idle"
  /\ \E text \in Texts \cup ScanTexts :
       /\ op' = "analyze_recruiter_scan"
       /\ resume_text' = text
       /\ ret' = analyze_recruiter_scan(text)
       /\ branch' = "return"
       /\ UNCHANGED <<job_role, job_desc, keywords>>
       /\ UNCHANGED <<provider, backend, exc, calls, aliased, catalogs>>

AnalyzeVisualInsights ==
  /\ op = "idle"
  /\ \E input \in InsightInputs :
       /\ op' = "analyze_visual_insights"
       /\ resume_text' = input[1]
       /\ keywords' = input[2][1]
       /\ aliased' = input[2][2]
       /\ ret' = analyze_visual_insights(input[1], input[2][1])
       /\ branch' = "return"
       /\ catalogs' = WithPreset(catalogs, input[2][2], InsightsLeave(input[2][1]))
       /\ UNCHANGED <<job_role, job_desc>>
       /\ UNCHANGED <<provider, backend, exc, calls>>

\* a call of generate_structured_feedback on a client of any provider
GenerateStructuredFeedback ==
  /\ op = "idle"
  /\ \E prov \in Providers :
       \E outcome \in OutcomesOf(prov) :
         /\ op' = "generate_structured_feedback"
         /\ provider' = prov
         /\ backend' = outcome
         /\ ret' = FeedbackOutcome(prov, outcome).value
         /\ branch' = FeedbackOutcome(prov, outcome).via
         /\ exc' = "none"
         /\ UNCHANGED <<resume_text, job_role, job_desc, keywords>>
         /\ UNCHANGED <<calls, aliased, catalogs>>

\* main, the rewrites of the vague achievements: with an API key in the
\* environment the backend is asked and "suggestions" is looked up in what
\* generate_quantified_rewrites returns; without one no client is made
QuantifiedRewrites ==
  /\ op = "idle"
  /\ \E prov \in Providers :
       \E outcome \in OutcomesOf(prov) :
         /\ op' = "quantified_rewrites"
         /\ provider' = IF prov = "heuristic" THEN "none" ELSE prov
         /\ backend' = outcome
         /\ IF prov = "heuristic"
              THEN /\ ret' = [exc |-> "none", q_resp |-> None, improved_items |-> EmptyList]
                   /\ branch' = "no_key"
                   /\ exc' = "none"
              ELSE /\ ret' = Lookup(generate_quantified_rewrites(prov, outcome))
                   /\ branch' = "asked"
                   /\ exc' = Lookup(generate_quantified_rewrites(prov, outcome)).exc
         /\ UNCHANGED <<resume_text, job_role, job_desc, keywords>>
         /\ UNCHANGED <<calls, aliased, catalogs>>

\* _run on a resume that is long enough: role_keywords is what
\* role_keywords_for returned and hit the preset it is the set of (0: none)
Reviewed(text, prov, outcome, role_keywords, hit) ==
  /\ calls' = RunCalls
  /\ branch' = "results"
  /\ provider' = prov
  /\ backend' = outcome
  /\ keywords' = role_keywords
  /\ aliased' = hit
  /\ ret' = RunResults(text, role_keywords, generate_structured_feedback(prov, outcome))
  /\ catalogs' = WithPreset(catalogs, hit, RunLeaves(role_keywords, Range(simple_tokenize(text))))

\* main, the button "Review Resume": the texts of the widgets are read, a
\* resume that is too short is answered with an error, any other goes
\* through _run
Review ==
  /\ op = "idle"
  /\ \E text \in ReviewTexts, role \in ReviewRoles, desc \in ReviewDescs, prov \in Providers :
       \E outcome \in ReviewOutcomes(prov) :
         /\ op' = "review"
         /\ resume_text' = text
         /\ job_role' = Stripped(role)
         /\ job_desc' = Stripped(desc)
         /\ exc' = "none"
         /\ IF TooShort(text)
              THEN /\ ret' = InvalidResume
                   /\ branch' = "error"
                   /\ calls' = <<>>
                   /\ keywords' = {}
                   /\ aliased' = 0
                   /\ provider' = "none"
                   /\ backend' = NoCall
                   /\ catalogs' = catalogs
              ELSE Reviewed(text, prov, outcome,
                            role_keywords_for(Stripped(role), Stripped(desc), text),
                            FirstPresetMatch(ROLE_PRESETS, Lower(Stripped(role))))

\* the caller has the result: the next request starts from nothing but the
\* catalogs, which live as long as the process
Return ==
  /\ op # "idle"
  /\ op' = "idle"
  /\ resume_text' = <<>>
  /\ job_role' = <<>>
  /\ job_desc' = <<>>
  /\ keywords' = {}
  /\ ret' = <<>>
  /\ branch' = "none"
  /\ provider' = "none"
  /\ backend' = NoCall
  /\ exc' = "none"
  /\ calls' = <<>>
  /\ aliased' = 0
  /\ catalogs' = catalogs

Next ==
  \/ RoleKeywordsFor
  \/ CategorizeKeywords
  \/ DetectSections
  \/ ComputeAtsScore
  \/ SuggestQuantifiedAchievements
  \/ AnalyzeRecruiterScan
  \/ AnalyzeVisualInsights
  \/ GenerateStructuredFeedback
  \/ QuantifiedRewrites
  \/ Review
  \/ Return

Spec == Init /\ [][Next]_vars

----------------------------------------------------------------------------
(* Properties of compute_ats_score *)

\* what the request in progress is
Scoring     == op = "compute_ats_score"
Resolving   == op = "role_keywords_for"
Detecting   == op = "detect_sections"
Bucketing   == op = "categorize_keywords"
Suggesting  == op = "suggest_quantified_achievements"

\* the keywords of the request that are no token of its text
MissingCount ==
  Cardinality(keywords \ Range(simple_tokenize(resume_text)))

\* 60 * coverage + 40 * min(1, sections / 6) over the rationals, as the
\* fraction ExactNum / ExactDen
KeywordCount == IF keywords = {} THEN 1 ELSE Cardinality(keywords)
SectionSixths == Min({6, Cardinality(DOMAIN ret.detected_sections)})
ExactNum == 360 * (KeywordCount - MissingCount) + 40 * SectionSixths * KeywordCount
ExactDen == 6 * KeywordCount

\* C1: compute_ats_score returns a score between 0 and 100 for every text and
\* every keyword set, the empty text and the empty keyword set included; and
\* with an empty keyword set the coverage is 1.0, so the keyword part of the
\* score is 60: the score is 60 plus the section part 40 * min(1, sections / 6)
ScoreInRange ==
  Scoring =>
    /\ ret.score \in 0..100
    /\ (keywords = {} => ret.score = 60 + (40 * SectionSixths) \div 6)

\* the empty text scored against the empty keyword set
ScoreOfNothing ==
  /\ Scoring
  /\ keywords = {}
  /\ resume_text = <<>>
  /\ ret.score = 60

\* C2 as the specification states it: the score is the integer nearest to
\* 60 * coverage + 40 * min(1, sections / 6), i.e. within one half of it
ScoreIsNearestInteger ==
  Scoring =>
    /\ 2 * (ExactDen * ret.score - ExactNum) <= ExactDen
    /\ 2 * (ExactNum - ExactDen * ret.score) <= ExactDen

\* C2: the score is 60 * coverage + 40 * min(1, sections / 6) cut to its
\* integer part, not rounded: the score is at most the exact value v and v is
\* at most the score plus one, the latter only when v is a whole number that
\* the double-precision sum falls short of
ScoreIsTruncation ==
  Scoring =>
    /\ ExactDen * ret.score <= ExactNum
    /\ ExactNum <= ExactDen * (ret.score + 1)

\* four of five keywords missing and no section: the exact value is 12, the
\* double-precision sum is below 12 and the score is 11
ScoreFallsShort ==
  /\ Scoring
  /\ keywords = KeywordsFive
  /\ resume_text = LineDocker
  /\ MissingCount = 4
  /\ ret.detected_sections = << >>
  /\ ExactNum = 12 * ExactDen
  /\ ret.score = 11

\* C8: missing_keywords has at most 100 entries, is in ascending order, holds
\* only keywords of the role keyword set and no token of the text
MissingKeywordsListed ==
  Scoring =>
    LET missing == ret.missing_keywords
    IN  /\ Len(missing) <= 100
        /\ \A i \in 1..(Len(missing) - 1) : StrLess(missing[i], missing[i + 1])
        /\ Range(missing) \subseteq keywords
        /\ Range(missing) \cap Range(simple_tokenize(resume_text)) = {}

\* more than 100 keywords are missing and 100 are listed
MissingTruncated ==
  /\ Scoring
  /\ MissingCount > 100
  /\ Len(ret.missing_keywords) = 100

----------------------------------------------------------------------------
(* Properties of role_keywords_for *)

\* C3: when the lowercased role label contains the key of a preset, the result
\* is the keyword set of the first such preset in catalog order, whatever the
\* job description and the text are
PresetWins ==
  Resolving =>
    \A i \in DOMAIN ROLE_PRESETS :
      ( /\ Contains(Lower(job_role), ROLE_PRESETS[i].key)
        /\ \A j \in 1..(i - 1) : ~Contains(Lower(job_role), ROLE_PRESETS[j].key) )
      => ret = ROLE_PRESETS[i].vocab

\* a label naming two presets, the later one first, with a job description
\* and a text: the preset that is first in the catalog is returned
EarlierPresetReturned ==
  /\ Resolving
  /\ job_role = RoleBackendSoftware
  /\ job_desc = DescPython
  /\ resume_text = FullResume
  /\ Contains(Lower(job_role), ROLE_PRESETS[5].key)
  /\ ret = ROLE_PRESETS[3].vocab

\* C4 as the specification states it: the result is empty only when the role
\* label, the job description and the text are all empty
EmptyOnlyWhenAllEmpty ==
  Resolving =>
    (ret = {} <=> (job_role = <<>> /\ job_desc = <<>> /\ resume_text = <<>>))

\* C4: the result is empty exactly when no preset key occurs in the role label
\* and either the job description is not empty and has no token of three or
\* more characters, or the job description is empty and the text has no token
KeywordsEmptyExactlyWhen ==
  Resolving =>
    (ret = {} <=>
       /\ \A i \in DOMAIN ROLE_PRESETS : ~Contains(Lower(job_role), ROLE_PRESETS[i].key)
       /\ IF job_desc # <<>>
            THEN \A t \in Range(simple_tokenize(job_desc)) : Len(t) < 3
            ELSE simple_tokenize(resume_text) = <<>>)

\* a label no preset matches and a job description of one short word: the
\* result is empty although the text has tokens
EmptyDespiteText ==
  /\ Resolving
  /\ job_role = RoleChef
  /\ job_desc = DescShort
  /\ resume_text = FullResume
  /\ ret = {}

----------------------------------------------------------------------------
(* Properties of detect_sections *)

\* what pass 1 makes of the text of the request
PassOne == NonOther(HeadingPass(NonBlankLines(resume_text)))

SectionsCanonical ==
  Detecting =>
    /\ DOMAIN ret \subseteq Range(CANONICAL_SECTIONS)
    /\ \A sec \in DOMAIN ret : ret[sec] \in Nat

\* the fallback on a text that has a keyword of every section
AllSectionsByFallback ==
  /\ Detecting
  /\ branch = "fallback"
  /\ DOMAIN ret = Range(CANONICAL_SECTIONS)
  /\ Cardinality(DOMAIN ret) = 7

\* C7: for the example text ("John Doe", "Summary", "Experienced engineer.",
\* "Experience", "- responsible for managing a team of five people") the
\* result has both the "summary" and the "experience" section
ExampleHeadingsFound ==
  (Detecting /\ resume_text = ExampleResume) =>
    {"summary", "experience"} \subseteq DOMAIN ret

----------------------------------------------------------------------------
(* Properties of categorize_keywords *)

\* the vocabulary of the first domain preset whose key occurs in the role label
DomainOfRole ==
  LET hits == { i \in DOMAIN DOMAIN_PRESETS :
                  Contains(Lower(job_role), DOMAIN_PRESETS[i].key) }
  IN  IF hits = {} THEN {}
      ELSE DOMAIN_PRESETS[CHOOSE i \in hits : \A j \in hits : i <= j].vocab

\* C9: each keyword is in exactly one of the four buckets, the first of Soft
\* skills, Tools/Tech, Domain, Other that it matches: the buckets are pairwise
\* disjoint, their union is the keyword set, and each is in ascending order
BucketsPartition ==
  Bucketing =>
    /\ DOMAIN ret = {"Soft skills", "Tools/Tech", "Domain", "Other"}
    /\ \A a, b \in DOMAIN ret : a # b => Range(ret[a]) \cap Range(ret[b]) = {}
    /\ UNION { Range(ret[b]) : b \in DOMAIN ret } = keywords
    /\ \A b \in DOMAIN ret :
         \A i \in 1..(Len(ret[b]) - 1) : StrLess(ret[b][i], ret[b][i + 1])
    /\ Range(ret["Soft skills"]) = keywords \cap SoftSkills
    /\ Range(ret["Tools/Tech"]) = (keywords \cap ToolsTech) \ SoftSkills
    /\ Range(ret["Domain"]) = (keywords \cap DomainOfRole) \ (SoftSkills \cup ToolsTech)

\* a keyword set that fills all four buckets, one of them with two keywords
FourBucketsFilled ==
  /\ Bucketing
  /\ job_role = RoleSeniorDataScientist
  /\ keywords = KeywordsMixed
  /\ \A b \in DOMAIN ret : ret[b] # <<>>
  /\ \E b \in DOMAIN ret : Len(ret[b]) >= 2

----------------------------------------------------------------------------
(* Properties of suggest_quantified_achievements *)

\* the strings occur in the text one after another, from position `from` on
RECURSIVE PlacedFrom(_, _, _)
PlacedFrom(originals, text, from) ==
  \/ originals = <<>>
  \/ LET here == { p \in from..Len(text) : OccursAt(Head(originals), text, p) }
     IN  /\ here # {}
         /\ PlacedFrom(Tail(originals), text, Min(here) + Len(Head(originals)))

\* C10: at most 20 suggestions are returned, in document order, and the
\* original of each has at least 4 whitespace-delimited words and contains,
\* whatever the case of its letters, one of the vague phrases
SuggestionsCapped ==
  Suggesting =>
    /\ Len(ret) <= 20
    /\ PlacedFrom([i \in DOMAIN ret |-> ret[i].original], resume_text, 1)
    /\ \A i \in DOMAIN ret :
         /\ Len(Words(ret[i].original)) >= 4
         /\ \E v \in DOMAIN vague_patterns :
              Contains(Lower(ret[i].original), vague_patterns[v])

\* a text with more than 20 vague bullets: 20 suggestions
TwentyOfMore ==
  /\ Suggesting
  /\ Len(Suggestions(BulletLike(resume_text))) > 20
  /\ Len(ret) = 20

----------------------------------------------------------------------------
(* Properties of LLMClient *)

Asking == op = "generate_structured_feedback"

\* the one-section result of the except branch for a text
GeneralSection(text) ==
  PyDict(<< <<KeySections, PyDict(<< <<KeyGeneral, PyStr(text)>> >>)>> >>)

\* C11 as the specification states it: generate_structured_feedback raises no
\* exception, and when the backend call raised or returned a text that is no
\* valid JSON the caller receives the fixed heuristic result
FallbackIsHeuristic ==
  Asking =>
    /\ exc = "none"
    /\ (backend.raises \/ json_loads(backend.text).raises) => ret = HeuristicFallback

\* C11: generate_structured_feedback raises no exception; the fixed heuristic
\* result is what the heuristic provider returns; when the call of a backend
\* raised, the caller receives the dict whose one key "error" holds the
\* message of the exception; when a backend returned a text that is no valid
\* JSON, the caller receives the dict whose one key "sections" holds the
\* first 2000 characters of the text (stripped, for openai) as the section
\* "general"
FallbackIsErrorOrGeneral ==
  Asking =>
    /\ exc = "none"
    /\ provider = "heuristic" => ret = HeuristicFallback
    /\ (provider # "heuristic" /\ backend.raises) =>
         ret = PyDict(<< <<KeyError, PyStr(backend.text)>> >>)
    /\ (provider # "heuristic" /\ ~backend.raises /\ json_loads(backend.text).raises) =>
         ret = GeneralSection(Take(IF provider = "openai" THEN Strip(backend.text)
                                   ELSE backend.text, 2000))

\* a backend returned more than 2000 characters that are no JSON, and the
\* caller has the first 2000 of them as the section "general"
LongReplyCut ==
  /\ Asking
  /\ provider = "anthropic"
  /\ ~backend.raises
  /\ Len(backend.text) > 2000
  /\ branch = "except"
  /\ ret = GeneralSection(SubSeq(backend.text, 1, 2000))

----------------------------------------------------------------------------
(* Properties of the presentation flow *)

Reviewing == op = "review"

\* C12: a review of no resume text, or of a text whose length without the
\* surrounding whitespace is below 30, reports the error and calls none of
\* the analyzers and no backend; the analyzers and the client are called only
\* when that length is at least 30, and then all of them are
ReviewNeedsThirty ==
  Reviewing =>
    /\ (resume_text = <<>> \/ Len(Strip(resume_text)) < 30) =>
         /\ branch = "error"
         /\ ret = InvalidResume
         /\ calls = <<>>
         /\ provider = "none"
    /\ calls # <<>> => Len(Strip(resume_text)) >= 30
    /\ Len(Strip(resume_text)) >= 30 =>
         /\ branch = "results"
         /\ { "role_keywords_for", "compute_ats_score", "analyze_recruiter_scan",
              "analyze_visual_insights", "suggest_quantified_achievements",
              "generate_structured_feedback" } \subseteq Range(calls)

\* 29 characters between whitespace, 32 in all: the error, and no call
PaddedResumeRejected ==
  /\ Reviewing
  /\ Len(resume_text) >= 30
  /\ Len(Strip(resume_text)) = 29
  /\ branch = "error"
  /\ calls = <<>>

----------------------------------------------------------------------------
(* Properties of the catalogs *)

\* C13: after any sequence of requests the catalogs ROLE_PRESETS,
\* DOMAIN_PRESETS, SECTION_ALIASES and CANONICAL_SECTIONS are what they were
\* at the start, although role_keywords_for returns the set of the preset
\* itself and that set is handed on to later calls
CatalogsUnchanged ==
  /\ catalogs = Catalogs
  /\ (Resolving /\ aliased # 0) => ret = catalogs.ROLE_PRESETS[aliased].vocab

\* the set of a preset, handed to compute_ats_score with a text that has some
\* of its keywords
HeldSetScored ==
  /\ Scoring
  /\ aliased = 3
  /\ keywords = catalogs.ROLE_PRESETS[3].vocab
  /\ keywords \cap Range(simple_tokenize(resume_text)) # {}
  /\ Len(ret.missing_keywords) < Cardinality(keywords)

----------------------------------------------------------------------------
(* Properties of analyze_visual_insights *)

Measuring == op = "analyze_visual_insights"

\* the words and the sentences of the text of the request
WordCount == Len(simple_tokenize(resume_text))
SentenceCount ==
  Max({1, Cardinality({ i \in DOMAIN resume_text : resume_text[i] \in {".", "!", "?"} })})

\* C14: word_count is the number of tokens of the text; the sentences are the
\* characters ".", "!" and "?", counted as 1 when there is none;
\* estimated_read_time_min is word_count / 200 and avg_sentence_length is
\* word_count / sentences, each rounded to a nearest hundredth (no hundredth
\* is nearer to the exact quotient)
ReadabilityRounded ==
  Measuring =>
    LET r == ret.readability
    IN  /\ r.word_count = WordCount
        /\ 2 * r.estimated_read_time_min.hundredths - WordCount \in {-1, 0, 1}
        /\ 2 * (r.avg_sentence_length.hundredths * SentenceCount - 100 * WordCount)
             <= SentenceCount
        /\ 2 * (100 * WordCount - r.avg_sentence_length.hundredths * SentenceCount)
             <= SentenceCount

\* two words in three sentences: 0.67 words a sentence, 0.01 minutes
TwoThirdsRoundedUp ==
  /\ Measuring
  /\ WordCount = 2
  /\ SentenceCount = 3
  /\ ret.readability.avg_sentence_length.hundredths = 67
  /\ ret.readability.estimated_read_time_min.hundredths = 1

----------------------------------------------------------------------------
(* Properties of analyze_recruiter_scan *)

Scanning == op = "analyze_recruiter_scan"

\* the lines of a text that are not blank, stripped
NonBlankStripped(lines) ==
  FlatMap(LAMBDA i : IF \A k \in DOMAIN lines[i] : IsSpace(lines[i][k]) THEN <<>>
                     ELSE << Strip(lines[i]) >>, 1, Len(lines))

\* highlights and ignored are these lines: the first 8 as highlights, the
\* rest as ignored, and the placeholders where there is none
ScanOf(kept) ==
  /\ kept = <<>> => ret.highlights = NoHighlights
  /\ kept # <<>> => SplitLines(ret.highlights) = SubSeq(kept, 1, Min({8, Len(kept)}))
  /\ Len(kept) <= 8 => ret.ignored = ShortHeader
  /\ Len(kept) > 8 => SplitLines(ret.ignored) = SubSeq(kept, 9, Len(kept))

\* C15 as the specification states it: the scan works on the first 20
\* non-blank lines of the text, wherever the blank lines are
ScansTwentyNonBlank ==
  Scanning =>
    LET kept == NonBlankStripped(SplitLines(resume_text))
    IN  /\ ScanOf(SubSeq(kept, 1, Min({20, Len(kept)})))
        /\ Len(kept) <= 8 <=> ret.ignored = ShortHeader

\* C15: the scan works on the non-blank lines among the first 20 lines of the
\* text, blank lines counted: highlights is the first 8 of them joined by a
\* line feed (the placeholder when there is none), ignored the rest of them,
\* or the placeholder when they are 8 or fewer
ScansFirstTwentyLines ==
  Scanning =>
    LET lines == SplitLines(resume_text)
    IN  ScanOf(NonBlankStripped(SubSeq(lines, 1, Min({20, Len(lines)}))))

\* 25 lines with a blank line after each: the first 20 lines hold 10 of them,
\* 8 are highlights and 2 are ignored
BlankLinesCounted ==
  /\ Scanning
  /\ resume_text = DoubleSpaced(25)
  /\ Len(SplitLines(ret.highlights)) = 8
  /\ Len(SplitLines(ret.ignored)) = 2

----------------------------------------------------------------------------
(* Properties of the bullets of suggest_quantified_achievements *)

\* the glyph at g is the first character of its line and whitespace follows it
StartsLine(text, g) ==
  /\ text[g] \in {"-", BULLET, "*"}
  /\ g = 1 \/ text[g - 1] = NL
  /\ g < Len(text)
  /\ IsSpace(text[g + 1])

\* the line that starts at k is a bullet when its leading whitespace is left
\* out: a glyph, whitespace, and content up to the end of the line
IndentedBullet(text, k) ==
  /\ k = 1 \/ text[k - 1] = NL
  /\ \E g \in k..(Len(text) - 2) :
       /\ \A j \in k..(g - 1) : text[j] \in {" ", TAB}
       /\ text[g] \in {"-", BULLET, "*"}
       /\ text[g + 1] \in {" ", TAB}
       /\ \E p \in (g + 2)..Len(text) :
            /\ \A j \in (g + 1)..(p - 1) : text[j] \in {" ", TAB}
            /\ ~IsSpace(text[p])

\* the content of the bullet of the line that starts at k
BulletContent(text, k) ==
  LET p == CHOOSE q \in k..Len(text) :
             /\ ~IsSpace(text[q])
             /\ text[q] \notin {"-", BULLET, "*"} \/ (q > k /\ text[q - 1] \in {"-", BULLET, "*"})
             /\ \E g \in k..(q - 1) :
                  /\ text[g] \in {"-", BULLET, "*"}
                  /\ \A j \in k..(q - 1) : j # g => text[j] \in {" ", TAB}
  IN  SubSeq(text, p, RunEnd(text, p, LAMBDA c : c # NL))

\* C16 as the specification states it: every line that begins, after optional
\* whitespace, with a glyph, whitespace and content is a bullet, and of the
\* first 60 bullets those with a vague phrase and 4 words are flagged, an
\* indented one like any other
IndentedBulletsFlagged ==
  Suggesting =>
    LET starts  == { k \in DOMAIN resume_text : IndentedBullet(resume_text, k) }
        bullets == Map(LAMBDA n : BulletContent(resume_text,
                                     CHOOSE k \in starts : Cardinality({ j \in starts : j < k }) = n - 1),
                       Cardinality(starts))
    IN  ret = Take(Suggestions(Take(bullets, 60)), 20)

\* C16: a bullet is a glyph that is the first character of its line, followed
\* by whitespace and content; a glyph after leading whitespace starts none.
\* Each flagged bullet follows, after whitespace only, a glyph that starts a
\* line, and is one of the first 60 matches in document order
BulletsStartLines ==
  Suggesting =>
    /\ \A i \in DOMAIN ret :
         \E g \in DOMAIN resume_text :
           /\ StartsLine(resume_text, g)
           /\ \E p \in (g + 2)..Len(resume_text) :
                /\ \A k \in (g + 1)..(p - 1) : IsSpace(resume_text[k])
                /\ OccursAt(ret[i].original, resume_text, p)
    /\ \A i \in DOMAIN ret :
         \E b \in DOMAIN BulletLike(resume_text) :
           b <= 60 /\ ret[i].original = Strip(BulletLike(resume_text)[b])

\* an indented bullet with a vague phrase and 6 words, alone: not flagged
IndentedBulletMissed ==
  /\ Suggesting
  /\ resume_text = LineIndented
  /\ IsVague(resume_text)
  /\ Len(Words(resume_text)) >= 4
  /\ ret = <<>>

----------------------------------------------------------------------------
(* Properties of pass 1 of detect_sections *)

\* the phrase occurs in the line, whatever the case of the letters of the
\* line, with no letter, digit or underscore next to it on either side
HasWholeWord(phrase, line) ==
  \E p \in 1..(Len(line) - Len(phrase) + 1) :
    /\ OccursAt(phrase, Lower(line), p)
    /\ p = 1 \/ ~IsWordChar(line[p - 1])
    /\ p + Len(phrase) > Len(line) \/ ~IsWordChar(line[p + Len(phrase)])

\* the section current at a line, from the section current before it
CurrentAfter(current, line) ==
  LET found == { a \in DOMAIN SECTION_ALIASES : HasWholeWord(SECTION_ALIASES[a].alias, line) }
  IN  IF Len(line) <= 120 /\ found # {}
        THEN SECTION_ALIASES[CHOOSE a \in found : \A b \in found : a <= b].section
        ELSE current

\* max(1, floor(line_length / 60))
WeightOf(line) == Max({1, Len(line) \div 60})

\* the weights of the sections after the lines, taken one after another
RECURSIVE Weighed(_, _, _)
Weighed(lines, current, totals) ==
  IF lines = <<>> THEN totals
  ELSE LET now == CurrentAfter(current, Head(lines))
           had == IF now \in DOMAIN totals THEN totals[now] ELSE 0
       IN  Weighed(Tail(lines), now,
                   [sec \in DOMAIN totals \cup {now} |->
                      IF sec = now THEN had + WeightOf(Head(lines)) ELSE totals[sec]])

\* the sum of max(1, floor(line_length / 60)) over the lines
RECURSIVE TotalWeight(_)
TotalWeight(lines) ==
  IF lines = <<>> THEN 0 ELSE WeightOf(Head(lines)) + TotalWeight(Tail(lines))

\* C17: pass 1 takes the non-blank lines in document order with "summary" as
\* the current section at the start; a line of at most 120 characters that
\* has an alias as a whole word switches the current section to the section
\* of the first such alias of the table before it is counted, a longer line
\* never switches it, and every line adds max(1, floor(length / 60)) to the
\* section current at it; the weights of pass 1 add up to the sum of that
\* quantity over the lines, and pass 1 is what is returned unless that sum is
\* below 3
PassOneWeighsLines ==
  Detecting =>
    LET lines == NonBlankLines(resume_text)
    IN  /\ PassOne = Weighed(lines, "summary", << >>)
        /\ SumValues(PassOne) = TotalWeight(lines)
        /\ branch = "pass1" <=> TotalWeight(lines) >= 3
        /\ branch = "pass1" => ret = Weighed(lines, "summary", << >>)

\* one line of 184 characters that names the education section: it is too
\* long to switch the section and adds 3 to "summary"
LongHeadingCounted ==
  /\ Detecting
  /\ Len(NonBlankLines(resume_text)) = 1
  /\ Len(NonBlankLines(resume_text)[1]) = 184
  /\ HasWholeWord(SECTION_ALIASES[8].alias, NonBlankLines(resume_text)[1])
  /\ SECTION_ALIASES[8].section = "education"
  /\ branch = "pass1"
  /\ ret = [sec \in {"summary"} |-> 3]

----------------------------------------------------------------------------
(* Properties of role_keywords_for without a preset *)

\* K is the set of the n most frequent of the tokens: n of the distinct tokens
\* (all of them if there are fewer), each with a greater count than every
\* token left out, or the same count and an earlier first occurrence
MostFrequent(tokens, n, K) ==
  LET count(t) == Cardinality({ i \in DOMAIN tokens : tokens[i] = t })
      first(t) == Min({ i \in DOMAIN tokens : tokens[i] = t })
  IN  /\ K \subseteq Range(tokens)
      /\ Cardinality(K) = Min({n, Cardinality(Range(tokens))})
      /\ \A t \in K, u \in Range(tokens) \ K :
           count(t) > count(u) \/ (count(t) = count(u) /\ first(t) < first(u))

NoPreset ==
  \A i \in DOMAIN ROLE_PRESETS : ~Contains(Lower(job_role), ROLE_PRESETS[i].key)

\* C18: when no preset key occurs in the role label, a job description that
\* is not empty gives the 60 most frequent of its tokens of 3 or more
\* characters, whatever the text is, and an empty job description gives the
\* 40 most frequent tokens of the text; equal counts go by first occurrence
NoPresetTakesMostFrequent ==
  (Resolving /\ NoPreset) =>
    IF job_desc # <<>>
      THEN MostFrequent(Filter(simple_tokenize(job_desc), LAMBDA t : Len(t) >= 3), 60, ret)
      ELSE MostFrequent(simple_tokenize(resume_text), 40, ret)

\* a job description of more than 60 words of three letters, the last two
\* twice, and a word of two letters five times: the last two and the first 58
\* are returned
SixtyOfSixtyTwo ==
  /\ Resolving
  /\ NoPreset
  /\ job_desc = ManyWords(MaxDistinct)
  /\ resume_text = ManyWords(41)
  /\ Cardinality(ret) = 60
  /\ {WordNo(MaxDistinct - 1), WordNo(MaxDistinct)} \subseteq ret
  /\ {WordNo(59), WordNo(60), <<"q", "a">>} \cap ret = {}

----------------------------------------------------------------------------
(* Properties of the matching of compute_ats_score *)

\* a string that simple_tokenize can return: a lower-case letter followed by
\* lower-case letters, digits and the characters - + # /
PossibleToken(k) ==
  /\ k # <<>>
  /\ IsLetter(k[1])
  /\ \A i \in DOMAIN k : IsTokenChar(k[i])
  /\ Lower(k) = k

UnitTesting == <<"u","n","i","t"," ","t","e","s","t","i","n","g">>
DesignPatterns == <<"d","e","s","i","g","n"," ","p","a","t","t","e","r","n","s">>

\* C19: a keyword that no token can equal, such as one with a space, is
\* missing for every text, a text that has it verbatim included: it is among
\* the missing keywords listed (the list holds the first 100 of them; the
\* keyword sets of role_keywords_for have at most 60 keywords), so the
\* coverage of a keyword set that has such a keyword is below 1 and its score
\* is below 100
PhrasesAlwaysMissing ==
  Scoring =>
    \A k \in keywords :
      ~PossibleToken(k) =>
        /\ MissingCount >= 1
        /\ MissingCount <= 100 => k \in Range(ret.missing_keywords)
        /\ ret.score < 100

\* the software engineer preset against a text with every section and every
\* keyword of the preset verbatim: the two phrases are the missing keywords
PhraseInTextMissing ==
  /\ Scoring
  /\ keywords = ROLE_PRESETS[3].vocab
  /\ Contains(resume_text, UnitTesting)
  /\ Contains(resume_text, DesignPatterns)
  /\ Cardinality(DOMAIN ret.detected_sections) >= 6
  /\ Range(ret.missing_keywords) = {UnitTesting, DesignPatterns}
  /\ ret.score \in 90..99

----------------------------------------------------------------------------
(* Properties of what LLMClient returns to the presentation flow *)

Rewriting == op = "quantified_rewrites"

\* C20: whatever text a backend returns, a JSON object, a JSON array, string,
\* number or null, or no JSON at all, generate_structured_feedback and
\* generate_quantified_rewrites return a dict, and the lookup
\* q_resp.get("suggestions", []) of the presentation flow raises nothing
AlwaysReturnsDict ==
  /\ Asking => ret.kind = "dict"
  /\ (Rewriting /\ branch = "asked") => (ret.q_resp.kind = "dict" /\ exc = "none")

====
